---- MODULE Spec2Model ----
(***************************************************************************)
(* Model of the Plone MCP server (src/src/index.ts, markdown-parser.ts):   *)
(* the prepared-blocks slot, the block normalizer, title enforcement and   *)
(* the create / update / prepare handlers.                                 *)
(*                                                                         *)
(* JavaScript values are tagged records [t |-> <typeof>, v |-> <payload>]. *)
(* Objects whose key order is observable (the blocks mapping) are records  *)
(* [keys |-> <insertion order>, val |-> <key -> value>]; other objects are *)
(* functions from property names to values.                                *)
(***************************************************************************)
EXTENDS Integers, Sequences, FiniteSets, Bags, TLC

VARIABLES
    client,          \* this.client: Null or a PloneClient
    preparedBlocks,  \* this.preparedBlocks: Null or [blocks, blocks_layout, timestamp]
    now,             \* Date.now(), in milliseconds
    last,            \* the tool call being answered: arguments, outcome, HTTP request
    replaced,        \* history: Null, or the timestamp of the slot value that the
                     \* prepare call which filled the slot overwrote
    inflight,        \* the bag of handlers suspended at an await, with their local variables
    server,          \* the process: its phase, what it started from, the tools registered
    document         \* the document the store keeps at /page, where the model follows
                     \* it (SpecStore); Null where every answer of the store is a free choice

vars == <<client, preparedBlocks, now, last, replaced, inflight, server, document>>

-----------------------------------------------------------------------------
(* Bounds of the model *)

MaxNow == 60001
MaxSpecs == 2

\* tool calls in progress at a time
MaxInflight == 2

\* characters of a path handed to normalizePath
MaxPathLen == 3

(* Program constants *)

PREPARED_BLOCKS_TTL == 60000

-----------------------------------------------------------------------------
(* JavaScript values *)

Str(s) == [t |-> "string", v |-> s]
Num(n) == [t |-> "number", v |-> n]
Arr(s) == [t |-> "array", v |-> s]
Bool(b) == [t |-> "boolean", v |-> b]
Obj(o) == [t |-> "object", v |-> o]
Undefined == [t |-> "undefined", v |-> "undefined"]
Null == [t |-> "null", v |-> "null"]

\* ToBoolean: the falsy values are undefined, null, "", 0 and false
Truthy(x) ==
    CASE x.t = "undefined" -> FALSE
      [] x.t = "null" -> FALSE
      [] x.t = "string" -> x.v # ""
      [] x.t = "number" -> x.v # 0
      [] x.t = "boolean" -> x.v
      [] OTHER -> TRUE

EmptyObj == [k \in {} |-> Undefined]

Has(obj, k) == k \in DOMAIN obj

\* obj[k] of a plain object: undefined when the property is missing
Get(obj, k) == IF k \in DOMAIN obj THEN obj[k] ELSE Undefined

\* { ...a, ...b }: the properties of b win
Spread(a, b) == [k \in DOMAIN a \cup DOMAIN b |-> IF k \in DOMAIN b THEN b[k] ELSE a[k]]

\* outcome of a call that may throw
Returned(x) == [threw |-> FALSE, value |-> x, error |-> ""]
Threw(msg) == [threw |-> TRUE, value |-> Undefined, error |-> msg]

-----------------------------------------------------------------------------
(* Ordered objects: the blocks mapping, Record<string, any> *)

EmptyMap == [keys |-> <<>>, val |-> EmptyObj]

SeqToSet(s) == {s[i] : i \in 1..Len(s)}

MapHas(m, k) == k \in DOMAIN m.val

\* m[k], undefined when k is not a key
MapGet(m, k) == IF k \in DOMAIN m.val THEN m.val[k] ELSE Undefined

\* m[k] = x: a new key is appended to the insertion order
MapSet(m, k, x) ==
    [keys |-> IF k \in DOMAIN m.val THEN m.keys ELSE Append(m.keys, k),
     val |-> [j \in DOMAIN m.val \cup {k} |-> IF j = k THEN x ELSE m.val[j]]]

\* Object.keys(m)
ObjectKeys(m) == m.keys

-----------------------------------------------------------------------------
(* Array helpers *)

\* Array.prototype.filter
RECURSIVE FilterSeq(_, _)
FilterSeq(s, keep) ==
    IF s = <<>> THEN <<>>
    ELSE IF Head(s) \in keep THEN <<Head(s)>> \o FilterSeq(Tail(s), keep)
         ELSE FilterSeq(Tail(s), keep)

\* Array.prototype.unshift
Unshift(s, x) == <<x>> \o s

-----------------------------------------------------------------------------
(* markdown-parser.ts *)

\* mdast nodes are functions from property names to values: "type" is a
\* plain string, "children" a sequence of nodes, other properties JS values.
MdText(s) == ("type" :> "text") @@ ("value" :> Str(s))
MdNode(type, children) == ("type" :> type) @@ ("children" :> children)

getNodeProperty(node, property) ==
    IF property \in DOMAIN node /\ node[property].t = "string"
    THEN node[property].v
    ELSE ""

ensureChildren(children) ==
    IF Len(children) > 0 THEN children ELSE <<[text |-> ""]>>

\* transform returns a node, an array of nodes, or null
TNull == [k |-> "null"]
TNode(n) == [k |-> "node", n |-> n]
TList(l) == [k |-> "list", l |-> l]

\* .filter(Boolean).flat(): null is dropped, an array is spliced in
RECURSIVE FilterFlat_DropArrays(_)
FilterFlat_DropArrays(results) ==
    IF results = <<>> THEN <<>>
    ELSE LET r == Head(results)
             rest == FilterFlat_DropArrays(Tail(results))
         IN CASE r.k = "node" -> <<r.n>> \o rest
              [] OTHER -> rest

RECURSIVE FilterFlat(_)
FilterFlat(results) ==
    IF results = <<>> THEN <<>>
    ELSE LET r == Head(results)
             rest == FilterFlat(Tail(results))
         IN CASE r.k = "null" -> rest
              [] r.k = "node" -> <<r.n>> \o rest
              [] r.k = "list" -> r.l \o rest

RECURSIVE transform(_)
transform(node) ==
    LET children ==
            IF "children" \in DOMAIN node
            THEN FilterFlat([i \in 1..Len(node["children"]) |-> transform(node["children"][i])])
            ELSE <<>>
        type == node["type"]
    IN CASE type = "root" -> TList(children)
         [] type = "heading" ->
              LET depth == IF "depth" \in DOMAIN node /\ node["depth"].t = "number"
                           THEN node["depth"].v ELSE 2
              IN TNode([type |-> "h" \o ToString(depth), children |-> children])
         [] type = "paragraph" -> TNode([type |-> "p", children |-> ensureChildren(children)])
         [] type = "blockquote" -> TNode([type |-> "blockquote", children |-> children])
         [] type = "list" ->
              LET isOrdered == "ordered" \in DOMAIN node /\ node["ordered"] = [t |-> "boolean", v |-> TRUE]
              IN TNode([type |-> IF isOrdered THEN "ol" ELSE "ul", children |-> children])
         [] type = "listItem" -> TNode([type |-> "li", children |-> ensureChildren(children)])
         [] type = "strong" -> TNode([type |-> "strong", children |-> children])
         [] type = "emphasis" -> TNode([type |-> "em", children |-> children])
         [] type = "delete" -> TNode([type |-> "del", children |-> children])
         [] type = "superscript" -> TNode([type |-> "sup", children |-> children])
         [] type = "subscript" -> TNode([type |-> "sub", children |-> children])
         [] type = "link" ->
              LET url == getNodeProperty(node, "url")
                  title == getNodeProperty(node, "title")
              IN TNode([type |-> "link", data |-> [url |-> url],
                        children |-> IF Len(children) > 0 THEN children ELSE <<[text |-> title]>>])
         [] type = "text" -> TNode([text |-> getNodeProperty(node, "value")])
         [] type = "thematicBreak" -> TNull
         [] OTHER -> TList(children)

\* processor.runSync(processor.parse(text)): the syntax tree remark builds
\* for the texts used in this model
RemarkParse(text) ==
    CASE text = "Hello World" ->
           MdNode("root", <<MdNode("paragraph", <<MdText("Hello World")>>)>>)
      [] text = "# Hi" ->
           MdNode("root", <<MdNode("heading", <<MdText("Hi")>>) @@ ("depth" :> Num(1))>>)
      [] OTHER -> MdNode("root", <<MdNode("paragraph", <<MdText(text)>>)>>)

\* transform(ast), made an array: what markdownParse returns for the syntax
\* tree ast
transformRoot(ast) ==
    LET result == transform(ast)
    IN CASE result.k = "list" -> result.l
         [] result.k = "node" -> <<result.n>>
         [] OTHER -> <<>>

markdownParse(markdownText) ==
    IF markdownText.t # "string" THEN Threw("Input must be a string")
    ELSE IF markdownText.v = "" THEN Returned(<<>>)
    ELSE Returned(transformRoot(RemarkParse(markdownText.v)))

-----------------------------------------------------------------------------
(* index.ts, section 2: PloneClient *)

\* a path is the sequence of its characters

\* PloneClient.normalizePath(path): "/" for the empty path; otherwise one
\* trailing slash is removed, then a leading slash is put before what is
\* left unless it is empty or has one
normalizePath(path) ==
    IF path = <<>> THEN <<"/">>
    ELSE LET normalized == IF path[Len(path)] = "/" THEN SubSeq(path, 1, Len(path) - 1)
                           ELSE path
         IN IF normalized # <<>> /\ normalized[1] # "/"
            THEN <<"/">> \o normalized
            ELSE normalized

-----------------------------------------------------------------------------
(* index.ts, section 5: helper methods *)

\* The strings the model uses as image addresses, and what the code's
\* string tests and the network answer for them.
UrlPng == "https://example.com/logo.png"
UrlHtml == "https://example.com/page.html"
Url404 == "https://example.com/missing.png"
UrlDown == "https://unreachable.invalid/x.png"
DataPng == "data:image/png;base64,AAAA"
DataTxt == "data:text/plain,hi"
Blank == "   "

\* url.startsWith("data:") and url.startsWith("data:image/")
StartsWithData(s) == s \in {DataPng, DataTxt}
StartsWithDataImage(s) == s \in {DataPng}

\* url.trim()
Trim(s) == IF s = Blank THEN "" ELSE s

\* fetch(url, {method: "HEAD"}): rejects, or answers with a status and a
\* Content-Type header (Null when the header is missing)
Fetch(url) ==
    CASE url = UrlPng -> [rejects |-> FALSE, ok |-> TRUE, contentType |-> Str("image/png")]
      [] url = UrlHtml -> [rejects |-> FALSE, ok |-> TRUE, contentType |-> Str("text/html")]
      [] url = Url404 -> [rejects |-> FALSE, ok |-> FALSE, contentType |-> Null]
      [] OTHER -> [rejects |-> TRUE, ok |-> FALSE, contentType |-> Null]

\* contentType.startsWith("image/")
StartsWithImage(s) == s \in {"image/png"}

\* wrapError(operation, error) for an error that is not a ZodError
wrapError(operation, message) == "[" \o operation \o "] " \o message

needsValidation_AnyImage(blockType, blockData) == blockType = "image"

\* blockType === "image" && blockData?.url
needsValidation(blockType, blockData) ==
    blockType = "image" /\ Truthy(Get(blockData, "url"))

validateImageURL_TrustsUnreachable(url) ==
    IF url.t # "string" THEN FALSE
    ELSE IF StartsWithData(url.v) THEN StartsWithDataImage(url.v)
    ELSE LET response == Fetch(url.v)
         IN IF response.rejects THEN TRUE
            ELSE IF ~response.ok THEN FALSE
            ELSE IF Truthy(response.contentType)
                 THEN StartsWithImage(response.contentType.v)
                 ELSE FALSE

validateImageURL_NoContentType(url) ==
    IF url.t # "string" THEN FALSE
    ELSE IF StartsWithData(url.v) THEN StartsWithDataImage(url.v)
    ELSE LET response == Fetch(url.v)
         IN IF response.rejects THEN FALSE ELSE response.ok

validateImageURL(url) ==
    IF url.t # "string" THEN FALSE   \* url.startsWith is not a function: caught
    ELSE IF StartsWithData(url.v) THEN StartsWithDataImage(url.v)
    ELSE LET response == Fetch(url.v)
         IN IF response.rejects THEN FALSE
            ELSE IF ~response.ok THEN FALSE
            ELSE IF Truthy(response.contentType)
                 THEN StartsWithImage(response.contentType.v)
                 ELSE FALSE

isExpiredPreparedBlocks_Never(prepared, t) == prepared = Null

isExpiredPreparedBlocks(prepared, t) ==
    IF prepared = Null THEN TRUE
    ELSE t - prepared.timestamp > PREPARED_BLOCKS_TTL

\* uuidv4() returns an identifier that no block the server holds carries and
\* that no caller wrote: the n-th call of a handler gets the n-th unused name
GenIdNames ==
    <<"g1", "g2", "g3", "g4", "g5", "g6", "g7", "g8", "g9", "g10",
      "g11", "g12">>

generateBlockId(used, n) == FilterSeq(GenIdNames, SeqToSet(GenIdNames) \ used)[n]

TitleBlock_Slate == ("@type" :> Str("slate"))

\* { "@type": "title" }: what the title step writes under the title id
TitleBlock == ("@type" :> Str("title"))

processBlock_KeepsRaw(blockType, blockData) ==
    IF blockType \in {"slate", "text"} THEN
        LET textContent == IF Truthy(Get(blockData, "text")) THEN blockData["text"] ELSE Str("")
            parsed == markdownParse(textContent)
        IN IF parsed.threw THEN Threw(parsed.error)
           ELSE Returned(Spread(blockData,
                         ("@type" :> Str("slate"))
                         @@ ("plaintext" :> textContent)
                         @@ ("value" :> Arr(parsed.value))
                         @@ ("theme" :> IF Truthy(Get(blockData, "theme"))
                                        THEN blockData["theme"] ELSE Str("default"))))
    ELSE IF blockType = "image" THEN
        IF Get(blockData, "url").t # "string" \/ Trim(Get(blockData, "url").v) = ""
        THEN Threw("[ProcessBlock] Missing or invalid image URL")
        ELSE Returned(Spread(blockData, ("@type" :> Str("image"))))
    ELSE IF blockType \in {"teaser", "__button"} THEN
        LET processedData == Spread(blockData, ("@type" :> Str(blockType)))
            href == Get(blockData, "href")
        IN IF Truthy(href)
           THEN IF href.t = "string"
                THEN Returned(Spread(processedData, ("href" :> Arr(<<("@id" :> href)>>))))
                ELSE IF href.t = "array"
                THEN Returned(Spread(processedData, ("href" :> href)))
                ELSE Threw("[ProcessBlock] Invalid href format")
           ELSE Returned(processedData)
    ELSE Returned(Spread(blockData, ("@type" :> Str(blockType))))

processBlock_RawWins(blockType, blockData) ==
    IF blockType \in {"slate", "text"} THEN
        LET textContent == IF Truthy(Get(blockData, "text")) THEN blockData["text"] ELSE Str("")
            parsed == markdownParse(textContent)
        IN IF parsed.threw THEN Threw(parsed.error)
           ELSE Returned(("@type" :> Str("slate"))
                         @@ ("plaintext" :> textContent)
                         @@ ("value" :> Arr(parsed.value))
                         @@ ("theme" :> IF Truthy(Get(blockData, "theme"))
                                        THEN blockData["theme"] ELSE Str("default")))
    ELSE IF blockType = "image" THEN
        IF Get(blockData, "url").t # "string" \/ Trim(Get(blockData, "url").v) = ""
        THEN Threw("[ProcessBlock] Missing or invalid image URL")
        ELSE Returned(Spread(("@type" :> Str("image")), blockData))
    ELSE IF blockType \in {"teaser", "__button"} THEN
        LET processedData == Spread(("@type" :> Str(blockType)), blockData)
            href == Get(blockData, "href")
        IN IF Truthy(href)
           THEN IF href.t = "string"
                THEN Returned(Spread(processedData, ("href" :> Arr(<<("@id" :> href)>>))))
                ELSE IF href.t = "array"
                THEN Returned(Spread(processedData, ("href" :> href)))
                ELSE Threw("[ProcessBlock] Invalid href format")
           ELSE Returned(processedData)
    ELSE Returned(Spread(("@type" :> Str(blockType)), blockData))

\* processBlock(blockType, blockData): the finalized block record
processBlock(blockType, blockData) ==
    IF blockType \in {"slate", "text"} THEN
        LET textContent == IF Truthy(Get(blockData, "text")) THEN blockData["text"] ELSE Str("")
            parsed == markdownParse(textContent)
        IN IF parsed.threw THEN Threw(parsed.error)
           ELSE Returned(("@type" :> Str("slate"))
                         @@ ("plaintext" :> textContent)
                         @@ ("value" :> Arr(parsed.value))
                         @@ ("theme" :> IF Truthy(Get(blockData, "theme"))
                                        THEN blockData["theme"] ELSE Str("default")))
    ELSE IF blockType = "image" THEN
        IF Get(blockData, "url").t # "string" \/ Trim(Get(blockData, "url").v) = ""
        THEN Threw("[ProcessBlock] Missing or invalid image URL")
        ELSE Returned(Spread(blockData, ("@type" :> Str("image"))))
    ELSE IF blockType \in {"teaser", "__button"} THEN
        LET processedData == Spread(blockData, ("@type" :> Str(blockType)))
            href == Get(blockData, "href")
        IN IF Truthy(href)
           THEN IF href.t = "string"
                THEN Returned(Spread(processedData, ("href" :> Arr(<<("@id" :> href)>>))))
                ELSE IF href.t = "array"
                THEN Returned(Spread(processedData, ("href" :> href)))
                ELSE Threw("[ProcessBlock] Invalid href format")
           ELSE Returned(processedData)
    ELSE Returned(Spread(blockData, ("@type" :> Str(blockType))))

\* finalLayout.find(id => finalBlocks[id]?.["@type"] === "title")
RECURSIVE FindTitle(_, _)
FindTitle(finalLayout, finalBlocks) ==
    IF finalLayout = <<>> THEN Undefined
    ELSE IF MapHas(finalBlocks, Head(finalLayout))
            /\ Get(MapGet(finalBlocks, Head(finalLayout)), "@type") = Str("title")
         THEN Str(Head(finalLayout))
         ELSE FindTitle(Tail(finalLayout), finalBlocks)

hasPreparedBlocks_NonEmpty(prepared, t) ==
    /\ prepared # Null
    /\ ~isExpiredPreparedBlocks(prepared, t)
    /\ prepared.blocks_layout.items # <<>>

\* this.preparedBlocks !== null && !this.isExpiredPreparedBlocks()
hasPreparedBlocks(prepared, t) ==
    prepared # Null /\ ~isExpiredPreparedBlocks(prepared, t)

returnsNull_Never(hasProvided, hasPrepared, isUpdate) == FALSE

returnsNull_AnyOp(hasProvided, hasPrepared, isUpdate) == ~hasProvided /\ ~hasPrepared

\* the early return of _handleBlockProcessing: null for an update that has
\* neither provided nor prepared blocks
returnsNull(hasProvided, hasPrepared, isUpdate) ==
    ~hasProvided /\ ~hasPrepared /\ isUpdate

selectFinal_PreferArgs(prepared, hasPrepared, blocks, blocks_layout) ==
    IF hasPrepared /\ blocks = Undefined /\ blocks_layout = Undefined
    THEN [blocks |-> prepared.blocks, layout |-> Arr(prepared.blocks_layout.items)]
    ELSE LET finalBlocks == IF blocks # Undefined THEN blocks ELSE EmptyMap
             items == IF blocks_layout = Undefined THEN Undefined
                      ELSE Get(blocks_layout, "items")
         IN [blocks |-> finalBlocks,
             layout |-> IF Truthy(items) THEN items ELSE Arr(ObjectKeys(finalBlocks))]

\* finalBlocks and finalLayout: the prepared blocks when there are valid
\* ones, otherwise the arguments, the layout defaulting to the keys
selectFinal(prepared, hasPrepared, blocks, blocks_layout) ==
    IF hasPrepared
    THEN [blocks |-> prepared.blocks, layout |-> Arr(prepared.blocks_layout.items)]
    ELSE LET finalBlocks == IF blocks # Undefined THEN blocks ELSE EmptyMap
             items == IF blocks_layout = Undefined THEN Undefined
                      ELSE Get(blocks_layout, "items")
         IN [blocks |-> finalBlocks,
             layout |-> IF Truthy(items) THEN items ELSE Arr(ObjectKeys(finalBlocks))]

clearPrepared_Keep(prepared) == prepared

\* this.preparedBlocks = null, whatever the slot held
clearPrepared(prepared) == Null

enforceTitle_NoMove(finalBlocks, finalLayout, freshId) ==
    LET found == FindTitle(finalLayout, finalBlocks)
        create == ~Truthy(found)
        titleBlockId == IF create THEN freshId ELSE found.v
    IN [blocks |-> MapSet(finalBlocks, titleBlockId, TitleBlock),
        blocks_layout |-> [items |-> IF create THEN Unshift(finalLayout, titleBlockId)
                                     ELSE finalLayout],
        generated |-> create]

enforceTitle_NoFilter(finalBlocks, finalLayout, freshId) ==
    LET found == FindTitle(finalLayout, finalBlocks)
        create == ~Truthy(found)
        titleBlockId == IF create THEN freshId ELSE found.v
    IN [blocks |-> MapSet(finalBlocks, titleBlockId, TitleBlock),
        blocks_layout |-> [items |-> IF create \/ finalLayout[1] # titleBlockId
                                     THEN Unshift(finalLayout, titleBlockId)
                                     ELSE finalLayout],
        generated |-> create]

enforceTitle_Swap(finalBlocks, finalLayout, freshId) ==
    LET found == FindTitle(finalLayout, finalBlocks)
        create == ~Truthy(found)
        titleBlockId == IF create THEN freshId ELSE found.v
        at == CHOOSE i \in 1..Len(finalLayout) : finalLayout[i] = titleBlockId
        newLayout == IF create THEN Unshift(finalLayout, titleBlockId)
                     ELSE IF finalLayout[1] # titleBlockId
                     THEN [finalLayout EXCEPT ![1] = titleBlockId, ![at] = finalLayout[1]]
                     ELSE finalLayout
    IN [blocks |-> MapSet(finalBlocks, titleBlockId, TitleBlock),
        blocks_layout |-> [items |-> newLayout],
        generated |-> create]

enforceTitle_AlwaysNew(finalBlocks, finalLayout, freshId) ==
    [blocks |-> MapSet(finalBlocks, freshId, TitleBlock),
     blocks_layout |-> [items |-> Unshift(finalLayout, freshId)],
     generated |-> TRUE]

\* the title block is found or created, moved to the front and reset
enforceTitle(finalBlocks, finalLayout, freshId) ==
    LET found == FindTitle(finalLayout, finalBlocks)
        create == ~Truthy(found)
        titleBlockId == IF create THEN freshId ELSE found.v
        newLayout == IF create THEN Unshift(finalLayout, titleBlockId)
                     ELSE IF finalLayout[1] # titleBlockId
                     THEN Unshift(FilterSeq(finalLayout, SeqToSet(finalLayout) \ {titleBlockId}),
                                  titleBlockId)
                     ELSE finalLayout
    IN [blocks |-> MapSet(finalBlocks, titleBlockId, TitleBlock),
        blocks_layout |-> [items |-> newLayout],
        generated |-> create]

\* _handleBlockProcessing(blocks, blocks_layout, isUpdate) for the slot value
\* prepared at time t; freshId is what generateBlockId() returns if called.
\* The result carries the returned value (Null, or blocks and layout) and
\* the new slot value.
handleBlockProcessing(prepared, t, blocks, blocks_layout, isUpdate, freshId) ==
    LET hasProvided == blocks # Undefined \/ blocks_layout # Undefined
        hasPrepared == hasPreparedBlocks(prepared, t)
    IN IF returnsNull(hasProvided, hasPrepared, isUpdate)
       THEN [threw |-> FALSE, error |-> "", value |-> Null, slot |-> prepared]
       ELSE
       LET final == selectFinal(prepared, hasPrepared, blocks, blocks_layout)
       IN IF final.layout.t # "array"
          THEN \* finalLayout.find is not a function; the slot is cleared by then
               [threw |-> TRUE, error |-> "finalLayout.find is not a function",
                value |-> Undefined, slot |-> clearPrepared(prepared)]
          ELSE
          LET enforced == enforceTitle(final.blocks, final.layout.v, freshId)
          IN [threw |-> FALSE, error |-> "",
              value |-> [blocks |-> enforced.blocks, blocks_layout |-> enforced.blocks_layout],
              slot |-> clearPrepared(prepared)]

-----------------------------------------------------------------------------
(* Inputs of the tool calls *)

\* an object literal with the given keys, in that order
MkMap(keys, values) ==
    [keys |-> keys, val |-> [k \in SeqToSet(keys) |-> values[CHOOSE i \in 1..Len(keys) : keys[i] = k]]]

SlateA == ("@type" :> Str("slate")) @@ ("plaintext" :> Str("A"))
TitleX == ("@type" :> Str("title")) @@ ("text" :> Str("My title"))

\* the blocks / blocks_layout arguments of plone_create_content and
\* plone_update_content
BlockArgs ==
    { [blocks |-> Undefined, blocks_layout |-> Undefined],
      [blocks |-> MkMap(<<"a">>, <<SlateA>>), blocks_layout |-> Undefined],
      [blocks |-> MkMap(<<"a", "b">>, <<SlateA, TitleX>>),
       blocks_layout |-> ("items" :> Arr(<<"a", "b">>))],
      [blocks |-> MkMap(<<"b", "a">>, <<TitleX, SlateA>>), blocks_layout |-> EmptyObj],
      [blocks |-> MkMap(<<"a", "b">>, <<TitleX, TitleX>>), blocks_layout |-> Undefined],
      [blocks |-> MkMap(<<"a", "b">>, <<SlateA, TitleX>>),
       blocks_layout |-> ("items" :> Arr(<<"a">>))],
      [blocks |-> MkMap(<<"a">>, <<SlateA>>),
       blocks_layout |-> ("items" :> Arr(<<"b", "b">>))],
      [blocks |-> MkMap(<<"">>, <<TitleX>>), blocks_layout |-> Undefined],
      [blocks |-> MkMap(<<"a">>, <<SlateA>>), blocks_layout |-> ("items" :> Str("a"))] }

\* the additionalFields argument
AdditionalFieldsArgs ==
    { Undefined,
      ("preview_image_link" :> Str(UrlPng)),
      ("blocks" :> MkMap(<<"z">>, <<SlateA>>)) @@ ("blocks_layout" :> [items |-> <<"z">>]) }

NoBlockArgs == [blocks |-> Undefined, blocks_layout |-> Undefined]
OneBlockArgs == [blocks |-> MkMap(<<"a">>, <<SlateA>>), blocks_layout |-> Undefined]

CreateArgs ==
    { [valid |-> FALSE, description |-> Undefined, id |-> Undefined,
       blocks |-> Undefined, blocks_layout |-> Undefined, additionalFields |-> Undefined] }
    \cup
    { [valid |-> TRUE, description |-> Undefined, id |-> Undefined,
       blocks |-> b.blocks, blocks_layout |-> b.blocks_layout, additionalFields |-> Undefined] :
         b \in BlockArgs }
    \cup
    { [valid |-> TRUE, description |-> d, id |-> i,
       blocks |-> b.blocks, blocks_layout |-> b.blocks_layout, additionalFields |-> af] :
         d \in {Str("")}, i \in {Str("my-page")}, b \in {NoBlockArgs, OneBlockArgs},
         af \in AdditionalFieldsArgs \ {Undefined} }

UpdateArgs ==
    { [valid |-> FALSE, path |-> "/page", title |-> Undefined, description |-> Undefined,
       blocks |-> Undefined, blocks_layout |-> Undefined, additionalFields |-> Undefined],
      [valid |-> TRUE, path |-> "", title |-> Str("New"), description |-> Undefined,
       blocks |-> Undefined, blocks_layout |-> Undefined, additionalFields |-> Undefined],
      [valid |-> TRUE, path |-> "/page", title |-> Str("New"), description |-> Str(""),
       blocks |-> Undefined, blocks_layout |-> Undefined, additionalFields |-> Undefined] }
    \cup
    { [valid |-> TRUE, path |-> "/page", title |-> Undefined, description |-> Undefined,
       blocks |-> b.blocks, blocks_layout |-> b.blocks_layout, additionalFields |-> Undefined] :
         b \in BlockArgs }
    \cup
    { [valid |-> TRUE, path |-> "/page", title |-> Undefined, description |-> Undefined,
       blocks |-> b.blocks, blocks_layout |-> b.blocks_layout, additionalFields |-> af] :
         b \in {NoBlockArgs, OneBlockArgs}, af \in AdditionalFieldsArgs \ {Undefined} }

\* the block specifications of plone_create_blocks_layout
BlockSpecs ==
    { [type |-> "title", data |-> ("text" :> Str("My title")), position |-> Undefined],
      [type |-> "slate", data |-> ("text" :> Str("Hello World")), position |-> Undefined],
      [type |-> "image", data |-> ("url" :> Str(Url404)), position |-> Undefined],
      [type |-> "image", data |-> EmptyObj, position |-> Undefined] }

RECURSIVE SeqsUpTo(_, _)
SeqsUpTo(S, n) ==
    IF n = 0 THEN {<<>>}
    ELSE LET shorter == SeqsUpTo(S, n - 1)
         IN shorter \cup {Append(q, x) : q \in {r \in shorter : Len(r) = n - 1}, x \in S}

CreateBlocksLayoutArgs ==
    { [valid |-> FALSE, blocks |-> <<>>] }
    \cup { [valid |-> TRUE, blocks |-> q] : q \in SeqsUpTo(BlockSpecs, MaxSpecs) }

\* batches of block specifications with positions and image addresses
SlateSpec == [type |-> "slate", data |-> ("text" :> Str("Hello World")), position |-> Undefined]
TitleAt(position) == [type |-> "title", data |-> EmptyObj, position |-> position]
ImageSpec(data) == [type |-> "image", data |-> data, position |-> Undefined]

BlockBatches ==
    { <<SlateSpec>>,
      <<SlateSpec, TitleAt(Num(0))>>,
      <<SlateSpec, TitleAt(Num(1))>>,
      <<SlateSpec, TitleAt(Num(5))>>,
      <<SlateSpec, TitleAt(Num(-1))>>,
      <<ImageSpec("url" :> Str(UrlPng))>>,
      <<ImageSpec("url" :> Str(DataPng)), SlateSpec>>,
      <<SlateSpec, ImageSpec("url" :> Str(Url404))>>,
      <<SlateSpec, ImageSpec("url" :> Str(UrlDown))>>,
      <<SlateSpec, ImageSpec("url" :> Str(UrlHtml))>>,
      <<ImageSpec("url" :> Str(DataTxt))>>,
      <<ImageSpec("url" :> Num(42))>>,
      <<SlateSpec, ImageSpec(EmptyObj)>>,
      <<SlateSpec, ImageSpec("url" :> Str(""))>>,
      <<ImageSpec("url" :> Str(Blank))>>,
      <<ImageSpec("url" :> Null)>> }

BlockBatchArgs == { [valid |-> TRUE, blocks |-> q] : q \in BlockBatches }

\* what client.get(path) returns: a document with its blocks and layout
DocBlocks == MkMap(<<"t", "a">>, <<TitleBlock, SlateA>>)
Contents ==
    { [blocks |-> DocBlocks, blocks_layout |-> [items |-> <<"t", "a">>]],
      [blocks |-> MkMap(<<"t">>, <<TitleBlock>>), blocks_layout |-> [items |-> <<"t">>]],
      [blocks |-> DocBlocks, blocks_layout |-> [items |-> <<"t", "a", "a">>]],
      [blocks |-> Undefined, blocks_layout |-> Undefined] }

\* the blockType / blockData arguments of plone_add_block
BlockPayloads ==
    { [blockType |-> q[1].type, blockData |-> q[1].data] : q \in {b \in BlockBatches : Len(b) = 1} }
    \cup
    { [blockType |-> q[2].type, blockData |-> q[2].data] : q \in {b \in BlockBatches : Len(b) = 2} }

Positions == {Undefined, Num(-1), Num(0), Num(1), Num(2), Num(7)}

AddBlockArgs ==
    { [valid |-> FALSE, path |-> "/page", blockType |-> "slate", blockData |-> EmptyObj,
       position |-> Undefined] }
    \cup
    { [valid |-> TRUE, path |-> "/page", blockType |-> b.blockType, blockData |-> b.blockData,
       position |-> Undefined] : b \in BlockPayloads }
    \cup
    { [valid |-> TRUE, path |-> "/page", blockType |-> b.type, blockData |-> b.data,
       position |-> pos] : b \in {SlateSpec, TitleAt(Undefined)}, pos \in Positions }

\* property names every object inherits from Object.prototype
ObjectPrototypeNames == {"constructor", "toString"}

BlockIdArgs == {"t", "a", "missing"} \cup ObjectPrototypeNames

UpdateBlockArgs ==
    { [valid |-> FALSE, path |-> "/page", blockId |-> "a", blockData |-> EmptyObj] }
    \cup
    { [valid |-> TRUE, path |-> "/page", blockId |-> id, blockData |-> d] :
        id \in BlockIdArgs, d \in {EmptyObj, ("plaintext" :> Str("B"))} }

RemoveBlockArgs ==
    { [valid |-> FALSE, path |-> "/page", blockId |-> "a"] }
    \cup
    { [valid |-> TRUE, path |-> "/page", blockId |-> id] : id \in BlockIdArgs }

Delays == {PREPARED_BLOCKS_TTL, PREPARED_BLOCKS_TTL + 1}

BaseUrl == "https://demo.plone.org"

-----------------------------------------------------------------------------
(* State machine *)

\* what is remembered of a slot value: its identifiers and its timestamp
Summary(prepared) ==
    IF prepared = Null THEN Null
    ELSE [items |-> prepared.blocks_layout.items, timestamp |-> prepared.timestamp]

\* last while no tool call is being answered
NoCall ==
    [op |-> "none", args |-> Undefined, ok |-> TRUE, error |-> "", request |-> Null,
     blockData |-> Undefined, pre |-> Null, replaced |-> Null,
     ids |-> <<>>, checked |-> <<>>, fetched |-> Null]

\* the names setupToolHandlers registers
ToolNames ==
    { "plone_configure", "plone_get_content", "plone_create_content", "plone_update_content",
      "plone_delete_content", "plone_search", "plone_get_site_info", "plone_get_types",
      "plone_get_vocabularies", "plone_get_workflow_info", "plone_transition_workflow",
      "plone_get_block_schemas", "plone_create_blocks_layout", "plone_add_single_block",
      "plone_update_single_block", "plone_remove_single_block" }

\* setupToolHandlers() in a process whose ENABLED_TOOLS variable is enabledTools
setupToolHandlers(enabledTools) == ToolNames

\* the process after server.run(): blocks.json was read, every tool is registered
Running ==
    [phase |-> "running", blocksFile |-> "valid", enabledTools |-> Undefined,
     tools |-> setupToolHandlers(Undefined)]

\* the server is connected, knows the tool and is answering no other call
Accepts(tool) ==
    /\ server.phase = "running"
    /\ tool \in server.tools
    /\ last = NoCall

Init ==
    /\ inflight = EmptyBag
    /\ document = Null
    /\ server = Running
    /\ client = Null
    /\ preparedBlocks = Null
    /\ now = 0
    /\ last = NoCall
    /\ replaced = Null

\* time passes between tool calls
Tick ==
    \E d \in Delays :
        /\ last = NoCall
        /\ now + d <= MaxNow
        /\ now' = now + d
        /\ UNCHANGED <<document, server, inflight, client, preparedBlocks, last, replaced>>

\* the answer of the call is delivered; the server waits for the next call
Respond ==
    /\ last # NoCall
    /\ last' = NoCall
    /\ UNCHANGED <<document, server, inflight, client, preparedBlocks, now, replaced>>

\* handleConfigure: parse, construct the client, assign it, test the connection
Configure ==
    \E outcome \in {"invalid", "noBaseUrl", "unreachable", "ok"} :
        /\ Accepts("plone_configure")
        /\ client' = IF outcome \in {"invalid", "noBaseUrl"} THEN client
                     ELSE [baseUrl |-> BaseUrl]
        /\ last' = [NoCall EXCEPT !.op = "configure", !.args = Str(outcome),
                                  !.ok = (outcome = "ok"),
                                  !.error = IF outcome = "ok" THEN "" ELSE outcome,
                                  !.request = IF outcome \in {"unreachable", "ok"}
                                              THEN [method |-> "GET", path |-> "/", data |-> EmptyObj]
                                              ELSE Null]
        /\ UNCHANGED <<document, server, inflight, preparedBlocks, now, replaced>>

\* the identifiers of the blocks in the slot
SlotIds == IF preparedBlocks = Null THEN {} ELSE DOMAIN preparedBlocks.blocks.val

updateCatch_Keep(slot) == slot
stageCatch_Keep(slot) == slot

\* the catch blocks of the three handlers: the slot is cleared
createCatch(slot) == Null
updateCatch(slot) == Null
stageCatch(slot) == Null

\* the outcome of a handler that threw; slot is what its catch block leaves
Failed(error, request, blockData, slot) ==
    [ok |-> FALSE, error |-> error, request |-> request, blockData |-> blockData,
     slot |-> slot]

\* handleCreateContent(args); httpOk says whether client.post succeeds
handleCreateContent(args, httpOk) ==
    IF ~args.valid
    THEN Failed("[CreateContent] Invalid parameters", Null, Undefined, createCatch(preparedBlocks))
    ELSE IF client = Null
    THEN Failed("[CreateContent] Plone client not configured", Null, Undefined,
                createCatch(preparedBlocks))
    ELSE
    LET r == handleBlockProcessing(preparedBlocks, now, args.blocks, args.blocks_layout, FALSE,
                                   generateBlockId(SlotIds, 1))
    IN IF r.threw THEN Failed(r.error, Null, Undefined, createCatch(r.slot))
       ELSE
       LET base == ("@type" :> Str("Document")) @@ ("title" :> Str("My Page"))
           withDescription == IF Truthy(args.description)
                              THEN Spread(base, ("description" :> args.description)) ELSE base
           withId == IF Truthy(args.id) THEN Spread(withDescription, ("id" :> args.id))
                     ELSE withDescription
           withBlocks == IF r.value # Null
                         THEN Spread(withId, ("blocks" :> r.value.blocks)
                                             @@ ("blocks_layout" :> r.value.blocks_layout))
                         ELSE withId
           data == IF args.additionalFields # Undefined
                   THEN Spread(withBlocks, args.additionalFields) ELSE withBlocks
           request == [method |-> "POST", path |-> "/", data |-> data]
       IN IF httpOk
          THEN [ok |-> TRUE, error |-> "", request |-> request, blockData |-> r.value,
                slot |-> r.slot]
          ELSE Failed("[CreateContent] Request failed", request, r.value, createCatch(r.slot))

\* handleUpdateContent(args); httpOk says whether client.patch succeeds
handleUpdateContent(args, httpOk) ==
    IF ~args.valid
    THEN Failed("[UpdateContent] Invalid parameters", Null, Undefined, updateCatch(preparedBlocks))
    ELSE IF client = Null
    THEN Failed("[UpdateContent] Plone client not configured", Null, Undefined,
                updateCatch(preparedBlocks))
    ELSE IF args.path = ""
    THEN Failed("[UpdateContent] Path is required for updating content", Null, Undefined,
                updateCatch(preparedBlocks))
    ELSE
    LET r == handleBlockProcessing(preparedBlocks, now, args.blocks, args.blocks_layout, TRUE,
                                   generateBlockId(SlotIds, 1))
    IN IF r.threw THEN Failed(r.error, Null, Undefined, updateCatch(r.slot))
       ELSE
       LET withTitle == IF args.title # Undefined THEN ("title" :> args.title) ELSE EmptyObj
           withDescription == IF args.description # Undefined
                              THEN Spread(withTitle, ("description" :> args.description))
                              ELSE withTitle
           withBlocks == IF r.value # Null
                         THEN Spread(withDescription, ("blocks" :> r.value.blocks)
                                                      @@ ("blocks_layout" :> r.value.blocks_layout))
                         ELSE withDescription
           data == IF args.additionalFields # Undefined
                   THEN Spread(withBlocks, args.additionalFields) ELSE withBlocks
           request == [method |-> "PATCH", path |-> args.path, data |-> data]
       IN IF DOMAIN data = {}
          THEN Failed("[UpdateContent] No changes specified for update", Null, r.value,
                      updateCatch(r.slot))
          ELSE IF httpOk
          THEN [ok |-> TRUE, error |-> "", request |-> request, blockData |-> r.value,
                slot |-> r.slot]
          ELSE Failed("[UpdateContent] Request failed", request, r.value, updateCatch(r.slot))

\* the state change of a create or update call with the given outcome
Write(op, args, outcome) ==
    /\ Accepts(IF op = "create" THEN "plone_create_content" ELSE "plone_update_content")
    /\ preparedBlocks' = outcome.slot
    /\ replaced' = IF outcome.slot = Null THEN Null ELSE replaced
    /\ last' = [NoCall EXCEPT !.op = op, !.args = args, !.ok = outcome.ok,
                              !.error = outcome.error, !.request = outcome.request,
                              !.blockData = outcome.blockData,
                              !.pre = Summary(preparedBlocks),
                              !.replaced = replaced]
    /\ UNCHANGED <<document, server, inflight, client, now>>

\* client.post either succeeds or fails, when the handler gets that far
CreateContent ==
    \E args \in CreateArgs :
        \/ Write("create", args, handleCreateContent(args, TRUE))
        \/ /\ handleCreateContent(args, TRUE).request # Null
           /\ Write("create", args, handleCreateContent(args, FALSE))

UpdateContent ==
    \E args \in UpdateArgs :
        \/ Write("update", args, handleUpdateContent(args, TRUE))
        \/ /\ handleUpdateContent(args, TRUE).request # Null
           /\ Write("update", args, handleUpdateContent(args, FALSE))

pushBlockId_Front(blockIds, blockId) == <<blockId>> \o blockIds

\* blockIds.push(blockId)
pushBlockId(blockIds, blockId) == Append(blockIds, blockId)

storePrepared_KeepStamp(prepared, processedBlocks, blockIds, t) ==
    [blocks |-> processedBlocks, blocks_layout |-> [items |-> blockIds],
     timestamp |-> IF prepared = Null THEN t ELSE prepared.timestamp]

storePrepared_Merge(prepared, processedBlocks, blockIds, t) ==
    IF prepared = Null
    THEN [blocks |-> processedBlocks, blocks_layout |-> [items |-> blockIds], timestamp |-> t]
    ELSE [blocks |-> [keys |-> prepared.blocks.keys \o processedBlocks.keys,
                      val |-> prepared.blocks.val @@ processedBlocks.val],
          blocks_layout |-> [items |-> prepared.blocks_layout.items \o blockIds],
          timestamp |-> t]

\* this.preparedBlocks = {blocks, blocks_layout, timestamp: Date.now()},
\* whatever the slot held
storePrepared(prepared, processedBlocks, blockIds, t) ==
    [blocks |-> processedBlocks, blocks_layout |-> [items |-> blockIds], timestamp |-> t]

\* the for loop of handleCreateBlocksLayout over blocks[i..], with the
\* locals processedBlocks, blockIds and blockInfo, n identifiers generated
\* by this call so far, and the urls handed to validateImageURL so far
RECURSIVE StageLoop(_, _, _, _, _, _)
StageLoop(blocks, processedBlocks, blockIds, blockInfo, n, checked) ==
    IF blocks = <<>>
    THEN [threw |-> FALSE, error |-> "", processedBlocks |-> processedBlocks,
          blockIds |-> blockIds, blockInfo |-> blockInfo, n |-> n, checked |-> checked]
    ELSE
    LET blockSpec == Head(blocks)
        url == Get(blockSpec.data, "url")
        validates == needsValidation(blockSpec.type, blockSpec.data)
        checkedNow == IF validates THEN Append(checked, url) ELSE checked
    IN IF validates /\ ~validateImageURL(url)
       THEN [threw |-> TRUE,
             error |-> wrapError("CreateBlocksLayout",
                                 wrapError("CreateBlocksLayout", "Invalid or inaccessible image URL")),
             processedBlocks |-> processedBlocks, blockIds |-> blockIds,
             blockInfo |-> blockInfo, n |-> n, checked |-> checkedNow]
       ELSE
       LET blockId == generateBlockId(SlotIds, n + 1)
           processedBlock == processBlock(blockSpec.type, blockSpec.data)
       IN IF processedBlock.threw
          THEN [threw |-> TRUE, error |-> wrapError("CreateBlocksLayout", processedBlock.error),
                processedBlocks |-> processedBlocks, blockIds |-> blockIds,
                blockInfo |-> blockInfo, n |-> n + 1, checked |-> checkedNow]
          ELSE StageLoop(Tail(blocks),
                         MapSet(processedBlocks, blockId, processedBlock.value),
                         pushBlockId(blockIds, blockId),
                         Append(blockInfo, [id |-> blockId, type |-> blockSpec.type]),
                         n + 1, checkedNow)

\* handleCreateBlocksLayout(args)
handleCreateBlocksLayout(args) ==
        LET loop == IF args.valid
                    THEN StageLoop(args.blocks, EmptyMap, <<>>, <<>>, 0, <<>>)
                    ELSE [threw |-> TRUE, error |-> "[CreateBlocksLayout] Invalid parameters",
                          processedBlocks |-> EmptyMap, blockIds |-> <<>>,
                          blockInfo |-> <<>>, n |-> 0, checked |-> <<>>]
        IN /\ Accepts("plone_create_blocks_layout")
           /\ replaced' = IF loop.threw \/ preparedBlocks = Null THEN Null
                          ELSE Num(preparedBlocks.timestamp)
           /\ preparedBlocks' = IF loop.threw THEN stageCatch(preparedBlocks)
                                ELSE storePrepared(preparedBlocks, loop.processedBlocks,
                                                   loop.blockIds, now)
           /\ last' = [NoCall EXCEPT !.op = "stage", !.args = args, !.ok = ~loop.threw,
                                     !.error = loop.error,
                                     !.ids = IF loop.threw THEN <<>> ELSE loop.blockInfo,
                                     !.pre = Summary(preparedBlocks),
                                     !.checked = loop.checked]
           /\ UNCHANGED <<document, server, inflight, client, now>>

CreateBlocksLayout ==
    \E args \in CreateBlocksLayoutArgs : handleCreateBlocksLayout(args)

\* availableBlockIds.join(", ")
RECURSIVE Join(_, _)
Join(s, separator) ==
    IF s = <<>> THEN ""
    ELSE IF Len(s) = 1 THEN s[1]
    ELSE s[1] \o separator \o Join(Tail(s), separator)

SpliceIn_AtEnd(items, position, blockId) == Append(items, blockId)

\* blocks_layout.items.splice(position, 0, blockId)
SpliceIn(items, position, blockId) ==
    SubSeq(items, 1, position) \o <<blockId>> \o SubSeq(items, position + 1, Len(items))

\* delete blocks[blockId]
MapDelete(m, k) ==
    [keys |-> FilterSeq(m.keys, SeqToSet(m.keys) \ {k}),
     val |-> [j \in DOMAIN m.val \ {k} |-> m.val[j]]]

\* items.indexOf(blockId), counted from 1; 0 when there is none
IndexOf(items, blockId) ==
    IF \E i \in 1..Len(items) : items[i] = blockId
    THEN CHOOSE i \in 1..Len(items) :
            items[i] = blockId /\ \A j \in 1..(i - 1) : items[j] # blockId
    ELSE 0

\* !!blocks[blockId]: an own block, or a property inherited from
\* Object.prototype
blockFound(blocks, blockId) ==
    MapHas(blocks, blockId) \/ blockId \in ObjectPrototypeNames

\* { ...blocks[blockId] }: the own properties of what the lookup returns
spreadBlock(blocks, blockId) ==
    IF MapHas(blocks, blockId) THEN blocks.val[blockId] ELSE EmptyObj

\* the outcome of a block handler: error, the PATCH request if one is sent,
\* the urls handed to validateImageURL, and whether the GET was answered
BlockOutcome(ok, error, request, checked, fetched) ==
    [ok |-> ok, error |-> error, request |-> request, checked |-> checked, fetched |-> fetched]

notFound(blocks, blockId) ==
    "Block with ID '" \o blockId \o "' not found. Available block IDs: "
        \o Join(ObjectKeys(blocks), ", ")

\* handleAddBlock(args) when client.get returns content (getOk) or rejects,
\* and client.patch succeeds (patchOk) or rejects
handleAddBlock(args, content, getOk, patchOk) ==
    IF ~args.valid
    THEN BlockOutcome(FALSE, "[AddBlock] Invalid parameters", Null, <<>>, Null)
    ELSE IF client = Null
    THEN BlockOutcome(FALSE, wrapError("AddBlock", "Plone client not configured"), Null, <<>>, Null)
    ELSE IF ~getOk
    THEN BlockOutcome(FALSE, wrapError("AddBlock", "Request failed"), Null, <<>>, Null)
    ELSE
    LET blocks == IF content.blocks # Undefined THEN content.blocks ELSE EmptyMap
        blocks_layout == IF content.blocks_layout # Undefined THEN content.blocks_layout
                         ELSE [items |-> <<>>]
        blockId == generateBlockId(DOMAIN blocks.val, 1)
        url == Get(args.blockData, "url")
        validates == needsValidation(args.blockType, args.blockData)
        checked == IF validates THEN <<url>> ELSE <<>>
    IN IF validates /\ ~validateImageURL(url)
       THEN BlockOutcome(FALSE,
                         wrapError("AddBlock", wrapError("AddBlock", "Invalid or inaccessible image URL")),
                         Null, checked, content)
       ELSE
       LET processed == processBlock(args.blockType, args.blockData)
       IN IF processed.threw
          THEN BlockOutcome(FALSE,
                            wrapError("AddBlock", "Error processing block data: " \o processed.error),
                            Null, checked, content)
          ELSE
          LET position == args.position
              items == IF position # Undefined /\ position.v >= 0
                          /\ position.v <= Len(blocks_layout.items)
                       THEN SpliceIn(blocks_layout.items, position.v, blockId)
                       ELSE Append(blocks_layout.items, blockId)
              request == [method |-> "PATCH", path |-> args.path,
                          data |-> ("blocks" :> MapSet(blocks, blockId, processed.value))
                                   @@ ("blocks_layout" :> [items |-> items])]
          IN IF patchOk THEN BlockOutcome(TRUE, "", request, checked, content)
             ELSE BlockOutcome(FALSE, wrapError("AddBlock", "Request failed"), request,
                               checked, content)

\* handleUpdateBlock(args)
handleUpdateBlock(args, content, getOk, patchOk) ==
    IF ~args.valid
    THEN BlockOutcome(FALSE, "[UpdateBlock] Invalid parameters", Null, <<>>, Null)
    ELSE IF client = Null
    THEN BlockOutcome(FALSE, wrapError("UpdateBlock", "Plone client not configured"), Null, <<>>, Null)
    ELSE IF ~getOk
    THEN BlockOutcome(FALSE, wrapError("UpdateBlock", "Request failed"), Null, <<>>, Null)
    ELSE
    LET blocks == IF content.blocks # Undefined THEN content.blocks ELSE EmptyMap
    IN IF ~blockFound(blocks, args.blockId)
       THEN BlockOutcome(FALSE, wrapError("UpdateBlock", notFound(blocks, args.blockId)),
                         Null, <<>>, content)
       ELSE
       LET updated == MapSet(blocks, args.blockId,
                             Spread(spreadBlock(blocks, args.blockId), args.blockData))
           request == [method |-> "PATCH", path |-> args.path, data |-> ("blocks" :> updated)]
       IN IF patchOk THEN BlockOutcome(TRUE, "", request, <<>>, content)
          ELSE BlockOutcome(FALSE, wrapError("UpdateBlock", "Request failed"), request,
                            <<>>, content)

\* handleRemoveBlock(args)
handleRemoveBlock(args, content, getOk, patchOk) ==
    IF ~args.valid
    THEN BlockOutcome(FALSE, "[RemoveBlock] Invalid parameters", Null, <<>>, Null)
    ELSE IF client = Null
    THEN BlockOutcome(FALSE, wrapError("RemoveBlock", "Plone client not configured"), Null, <<>>, Null)
    ELSE IF ~getOk
    THEN BlockOutcome(FALSE, wrapError("RemoveBlock", "Request failed"), Null, <<>>, Null)
    ELSE
    LET blocks == IF content.blocks # Undefined THEN content.blocks ELSE EmptyMap
        blocks_layout == IF content.blocks_layout # Undefined THEN content.blocks_layout
                         ELSE [items |-> <<>>]
    IN IF ~blockFound(blocks, args.blockId)
       THEN BlockOutcome(FALSE, wrapError("RemoveBlock", notFound(blocks, args.blockId)),
                         Null, <<>>, content)
       ELSE
       LET index == IndexOf(blocks_layout.items, args.blockId)
           items == IF index > 0
                    THEN SubSeq(blocks_layout.items, 1, index - 1)
                         \o SubSeq(blocks_layout.items, index + 1, Len(blocks_layout.items))
                    ELSE blocks_layout.items
           request == [method |-> "PATCH", path |-> args.path,
                       data |-> ("blocks" :> MapDelete(blocks, args.blockId))
                                @@ ("blocks_layout" :> [items |-> items])]
       IN IF patchOk THEN BlockOutcome(TRUE, "", request, <<>>, content)
          ELSE BlockOutcome(FALSE, wrapError("RemoveBlock", "Request failed"), request,
                            <<>>, content)

BlockCall_ClearsSlot(op, args, outcome) ==
    /\ Accepts(CASE op = "addBlock" -> "plone_add_single_block"
                 [] op = "updateBlock" -> "plone_update_single_block"
                 [] op = "removeBlock" -> "plone_remove_single_block")
    /\ last' = [NoCall EXCEPT !.op = op, !.args = args, !.ok = outcome.ok,
                              !.error = outcome.error, !.request = outcome.request,
                              !.checked = outcome.checked, !.fetched = outcome.fetched,
                              !.pre = Summary(preparedBlocks)]
    /\ preparedBlocks' = IF outcome.ok THEN preparedBlocks ELSE Null
    /\ UNCHANGED <<document, server, inflight, client, now, replaced>>

\* the state change of a block handler call: none but the call's record
BlockCall(op, args, outcome) ==
    /\ Accepts(CASE op = "addBlock" -> "plone_add_single_block"
                 [] op = "updateBlock" -> "plone_update_single_block"
                 [] op = "removeBlock" -> "plone_remove_single_block")
    /\ last' = [NoCall EXCEPT !.op = op, !.args = args, !.ok = outcome.ok,
                              !.error = outcome.error, !.request = outcome.request,
                              !.checked = outcome.checked, !.fetched = outcome.fetched,
                              !.pre = Summary(preparedBlocks)]
    /\ UNCHANGED <<document, server, inflight, client, preparedBlocks, now, replaced>>

\* the GET is answered or not; the PATCH, when one is sent, succeeds or not
AddBlock ==
    \E args \in AddBlockArgs, content \in Contents :
        \/ BlockCall("addBlock", args, handleAddBlock(args, content, TRUE, TRUE))
        \/ /\ handleAddBlock(args, content, TRUE, TRUE).request # Null
           /\ BlockCall("addBlock", args, handleAddBlock(args, content, TRUE, FALSE))
        \/ /\ handleAddBlock(args, content, TRUE, TRUE).fetched # Null
           /\ BlockCall("addBlock", args, handleAddBlock(args, content, FALSE, TRUE))

UpdateBlock ==
    \E args \in UpdateBlockArgs, content \in Contents :
        \/ BlockCall("updateBlock", args, handleUpdateBlock(args, content, TRUE, TRUE))
        \/ /\ handleUpdateBlock(args, content, TRUE, TRUE).request # Null
           /\ BlockCall("updateBlock", args, handleUpdateBlock(args, content, TRUE, FALSE))
        \/ /\ handleUpdateBlock(args, content, TRUE, TRUE).fetched # Null
           /\ BlockCall("updateBlock", args, handleUpdateBlock(args, content, FALSE, TRUE))

RemoveBlock ==
    \E args \in RemoveBlockArgs, content \in Contents :
        \/ BlockCall("removeBlock", args, handleRemoveBlock(args, content, TRUE, TRUE))
        \/ /\ handleRemoveBlock(args, content, TRUE, TRUE).request # Null
           /\ BlockCall("removeBlock", args, handleRemoveBlock(args, content, TRUE, FALSE))
        \/ /\ handleRemoveBlock(args, content, TRUE, TRUE).fetched # Null
           /\ BlockCall("removeBlock", args, handleRemoveBlock(args, content, FALSE, TRUE))

\* plone_create_blocks_layout with positions and image addresses
PrepareBlocks ==
    \E args \in BlockBatchArgs : handleCreateBlocksLayout(args)

Next ==
    \/ Tick
    \/ Respond
    \/ Configure
    \/ CreateContent
    \/ UpdateContent
    \/ CreateBlocksLayout

Spec == Init /\ [][Next]_vars

TypeOK ==
    /\ client \in {Null, [baseUrl |-> BaseUrl]}
    /\ now \in 0..MaxNow
    /\ preparedBlocks # Null => preparedBlocks.timestamp <= now

-----------------------------------------------------------------------------
(* The pure steps, applied to inputs of their own *)

ThemeValues == { Str("grey"), Str(""), Num(7), Num(0), Bool(FALSE), Null }

\* blockType / blockData pairs for processBlock
HrefValues ==
    { Str("/news"), Arr(<<("@id" :> Str("/news"))>>), Arr(<<>>), Num(42), Num(0),
      Bool(TRUE), Bool(FALSE), Str(""), Null, Obj(("@id" :> Str("/news"))) }

TextValues ==
    { Str("Hello World"), Str("# Hi"), Str(""), Num(5), Num(0), Bool(TRUE), Bool(FALSE), Null,
      Obj(EmptyObj) }

ProcessBlockInputs ==
    { [fn |-> "processBlock", blockType |-> ty, blockData |-> d] :
        ty \in {"teaser", "__button"},
        d \in {("title" :> Str("T"))} \cup {("title" :> Str("T")) @@ ("href" :> h) : h \in HrefValues} }
    \cup
    { [fn |-> "processBlock", blockType |-> ty, blockData |-> d] :
        ty \in {"slate", "text"},
        d \in {EmptyObj, ("theme" :> Str("grey"))} \cup {("text" :> x) : x \in TextValues} }
    \cup
    { [fn |-> "processBlock", blockType |-> b.blockType, blockData |-> b.blockData] :
        b \in BlockPayloads }
    \cup
    { [fn |-> "processBlock", blockType |-> "description", blockData |-> ("@type" :> Str("image"))],
      [fn |-> "processBlock", blockType |-> "description",
       blockData |-> ("@type" :> Str("image")) @@ ("text" :> Str("d")) @@ ("n" :> Num(0))],
      [fn |-> "processBlock", blockType |-> "image",
       blockData |-> ("@type" :> Str("slate")) @@ ("url" :> Str(UrlPng)) @@ ("alt" :> Null)],
      [fn |-> "processBlock", blockType |-> "teaser",
       blockData |-> ("@type" :> Str("title")) @@ ("title" :> Str("T"))],
      [fn |-> "processBlock", blockType |-> "text",
       blockData |-> ("@type" :> Str("image")) @@ ("text" :> Str("Hello World"))] }
    \cup
    { [fn |-> "processBlock", blockType |-> ty,
       blockData |-> ("text" :> Str("# Hi")) @@ ("theme" :> th) @@ ("align" :> Str("left"))] :
        ty \in {"slate", "text"}, th \in ThemeValues }

\* blocks / layout pairs for the title step
SlateC == ("@type" :> Str("slate")) @@ ("plaintext" :> Str("C"))

EnforceTitleInputs ==
    { [fn |-> "enforceTitle", blocks |-> MkMap(q[1], q[2]), layout |-> q[3]] :
        q \in { <<<<>>, <<>>, <<>>>>,
                <<<<"a">>, <<SlateA>>, <<"a">>>>,
                <<<<"b">>, <<TitleX>>, <<"b">>>>,
                <<<<"a", "b">>, <<SlateA, TitleX>>, <<"a", "b">>>>,
                <<<<"a", "c", "b">>, <<SlateA, SlateC, TitleX>>, <<"a", "c", "b">>>>,
                <<<<"a", "c", "b">>, <<SlateA, SlateC, TitleX>>, <<"c", "b", "a">>>>,
                <<<<"a", "b", "c">>, <<SlateA, TitleX, TitleX>>, <<"a", "b", "c">>>>,
                <<<<"a", "b">>, <<SlateA, TitleX>>, <<"a", "b", "a", "b">>>>,
                <<<<"a", "b">>, <<SlateA, TitleX>>, <<"b", "a", "b">>>>,
                <<<<"a", "b">>, <<SlateA, TitleX>>, <<"a">>>>,
                <<<<"a">>, <<SlateA>>, <<"b", "b">>>>,
                <<<<"">>, <<TitleX>>, <<"">>>>,
                <<<<"a", "">>, <<SlateA, TitleX>>, <<"a", "">>>> } }

\* syntax trees remark builds: inline nodes, marks around them, blocks
InlineCode == ("type" :> "inlineCode") @@ ("value" :> Str("c"))
MdLink(children) == MdNode("link", children) @@ ("url" :> Str("/news")) @@ ("title" :> Null)
MdHeading(depth, children) == MdNode("heading", children) @@ ("depth" :> Num(depth))

MarkTypes == {"strong", "emphasis", "delete", "superscript", "subscript"}

InlineLeaves == {MdText("x"), InlineCode}

InlineNodes ==
    InlineLeaves
    \cup {MdNode(m, <<c>>) : m \in MarkTypes, c \in InlineLeaves}
    \cup {MdLink(<<c>>) : c \in InlineLeaves}
    \cup {MdLink(<<>>)}

InlineSeqs == {<<n>> : n \in InlineNodes} \cup {<<MdText("x"), InlineCode>>}

BlockNodes ==
    {MdNode("paragraph", q) : q \in InlineSeqs}
    \cup {MdHeading(1, q) : q \in InlineSeqs \cup {<<>>}}
    \cup {MdNode("blockquote", <<MdNode("paragraph", q)>>) : q \in InlineSeqs}
    \cup {MdNode("blockquote", <<>>)}
    \cup {MdNode("list", <<MdNode("listItem", <<MdNode("paragraph", q)>>)>>)
            @@ ("ordered" :> Bool(o)) : q \in InlineSeqs, o \in {TRUE, FALSE}}
    \cup {MdNode("list", <<MdNode("listItem", <<>>)>>) @@ ("ordered" :> Bool(FALSE))}
    \cup {("type" :> "thematicBreak")}

\* nodes transform has no case for: a table of remark-gfm, a reference link
MdTable(cells) == MdNode("table", <<MdNode("tableRow", [i \in 1..Len(cells) |-> MdNode("tableCell", <<cells[i]>>)])>>)
MdLinkReference(children) == MdNode("linkReference", children) @@ ("identifier" :> Str("ref"))

UnsupportedTrees ==
    { MdNode("root", <<MdHeading(2, <<MdText("x")>>), MdTable(<<MdText("a"), MdText("b")>>),
                       MdNode("paragraph", <<MdText("y")>>)>>),
      MdNode("root", <<MdTable(<<MdText("a"), MdNode("strong", <<MdText("b")>>), InlineCode>>)>>),
      MdNode("root", <<MdNode("paragraph", <<MdText("x"), MdLinkReference(<<MdText("y"), MdNode("emphasis", <<MdText("z")>>)>>),
                                             MdText("w")>>)>>),
      MdNode("root", <<MdNode("paragraph", <<MdText("x")>>), ("type" :> "thematicBreak"),
                       MdTable(<<MdText("a")>>), ("type" :> "thematicBreak"),
                       MdNode("paragraph", <<MdText("y")>>)>>),
      MdNode("root", <<MdNode("blockquote", <<MdTable(<<MdText("a"), MdText("b")>>), ("type" :> "thematicBreak"),
                                              MdNode("paragraph", <<MdLinkReference(<<>>)>>)>>)>>),
      MdNode("root", <<("type" :> "html") @@ ("value" :> Str("<br>")), MdNode("paragraph", <<MdText("x")>>)>>) }

TransformInputs ==
    { [fn |-> "transform", ast |-> MdNode("root", <<b>>)] : b \in BlockNodes }
    \cup { [fn |-> "transform", ast |-> t] : t \in UnsupportedTrees }
    \cup { [fn |-> "transform", ast |-> MdNode("root", <<MdHeading(2, <<MdText("x")>>), b>>)] :
             b \in {MdNode("paragraph", <<MdText("x")>>), ("type" :> "thematicBreak")} }

\* paths of slashes and of a character that is none
PathInputs ==
    { [fn |-> "normalizePath", path |-> p] : p \in SeqsUpTo({"/", "a"}, MaxPathLen) }

PureInputs == ProcessBlockInputs \cup EnforceTitleInputs \cup TransformInputs \cup PathInputs

\* a step is about to be applied to an input
InitPure ==
    /\ inflight = EmptyBag
    /\ document = Null
    /\ server = Running
    /\ client = Null
    /\ preparedBlocks = Null
    /\ now = 0
    /\ replaced = Null
    /\ last \in {[NoCall EXCEPT !.op = "input", !.args = x] : x \in PureInputs}

\* processBlock(blockType, blockData)
NormalizeBlock ==
    /\ last.op = "input" /\ last.args.fn = "processBlock"
    /\ LET r == processBlock(last.args.blockType, last.args.blockData)
       IN last' = [last EXCEPT !.op = "processBlock", !.ok = ~r.threw, !.error = r.error,
                               !.blockData = r.value]
    /\ UNCHANGED <<document, server, inflight, client, preparedBlocks, now, replaced>>

\* the title step of _handleBlockProcessing on finalBlocks, finalLayout
EnforceTitle ==
    /\ last.op = "input" /\ last.args.fn = "enforceTitle"
    /\ LET r == enforceTitle(last.args.blocks, last.args.layout, generateBlockId({}, 1))
       IN last' = [last EXCEPT !.op = "enforceTitle",
                               !.blockData = [blocks |-> r.blocks, blocks_layout |-> r.blocks_layout],
                               !.ids = IF r.generated THEN <<generateBlockId({}, 1)>> ELSE <<>>]
    /\ UNCHANGED <<document, server, inflight, client, preparedBlocks, now, replaced>>

\* the title step again, on what it returned
EnforceTitleAgain ==
    /\ last.op = "enforceTitle"
    /\ LET input == last.blockData
           freshId == generateBlockId(DOMAIN input.blocks.val, 1)
           r == enforceTitle(input.blocks, input.blocks_layout.items, freshId)
       IN last' = [last EXCEPT !.op = "enforceTitleAgain",
                               !.args = [fn |-> "enforceTitle", blocks |-> input.blocks,
                                         layout |-> input.blocks_layout.items],
                               !.blockData = [blocks |-> r.blocks, blocks_layout |-> r.blocks_layout],
                               !.ids = IF r.generated THEN <<freshId>> ELSE <<>>]
    /\ UNCHANGED <<document, server, inflight, client, preparedBlocks, now, replaced>>

\* transform(ast) as markdownParse returns it
TransformAst ==
    /\ last.op = "input" /\ last.args.fn = "transform"
    /\ last' = [last EXCEPT !.op = "transform", !.blockData = Arr(transformRoot(last.args.ast))]
    /\ UNCHANGED <<document, server, inflight, client, preparedBlocks, now, replaced>>

\* normalizePath(path)
NormalizePath ==
    /\ last.op = "input" /\ last.args.fn = "normalizePath"
    /\ last' = [last EXCEPT !.op = "normalizePath", !.blockData = normalizePath(last.args.path)]
    /\ UNCHANGED <<document, server, inflight, client, preparedBlocks, now, replaced>>

\* normalizePath again, on what it returned
NormalizePathAgain ==
    /\ last.op = "normalizePath"
    /\ last' = [last EXCEPT !.op = "normalizePathAgain",
                            !.args = [fn |-> "normalizePath", path |-> last.blockData],
                            !.blockData = normalizePath(last.blockData)]
    /\ UNCHANGED <<document, server, inflight, client, preparedBlocks, now, replaced>>

NextPure ==
    \/ NormalizeBlock
    \/ EnforceTitle
    \/ EnforceTitleAgain
    \/ TransformAst
    \/ NormalizePath
    \/ NormalizePathAgain

SpecPure == InitPure /\ [][NextPure]_vars

-----------------------------------------------------------------------------
(* The process from its start, and the tools that only pass a request on *)

\* the block types blocks.json specifies
BlockTypes == <<"title", "slate", "text", "image", "teaser", "__button">>

\* what the process finds as blocks.json
BlocksFiles == {"valid", "empty", "malformed", "missing"}

\* JSON.parse(readFileSync(...)) in try/catch: the keys of the object
\* read, or undefined when reading or parsing threw
blocksSpecification(file) ==
    CASE file = "valid" -> Arr(BlockTypes)
      [] file = "empty" -> Arr(<<>>)
      [] OTHER -> Undefined

\* Object.keys(this.specifications)
getBlockTypes(specifications) ==
    IF specifications = Undefined
    THEN Threw("Cannot convert undefined or null to object")
    ELSE Returned(specifications.v)

getBlockTypesEnum_Unchecked(specifications) ==
    Returned(IF specifications = Undefined THEN <<>> ELSE specifications.v)

\* getBlockTypesEnum(), called where the schemas are defined
getBlockTypesEnum(specifications) ==
    LET types == getBlockTypes(specifications)
    IN IF types.threw THEN types
       ELSE IF Len(types.value) = 0 THEN Threw("No block types available")
       ELSE types

\* values of the ENABLED_TOOLS variable: unset, or names joined by commas
EnabledLists == {<<"plone_get_content">>, <<"plone_get_content", "plone_search">>}
EnabledToolsValues == {Undefined} \cup {Str(Join(q, ",")) : q \in EnabledLists}

StartTools ==
    /\ client = Null
    /\ preparedBlocks = Null
    /\ now = 0
    /\ last = NoCall
    /\ replaced = Null
    /\ inflight = EmptyBag
    /\ document = Null
    /\ server \in { [phase |-> "starting", blocksFile |-> f, enabledTools |-> e, tools |-> {}] :
                      f \in BlocksFiles, e \in EnabledToolsValues }

\* the module is evaluated, the server constructed and connected
Startup ==
    /\ server.phase = "starting"
    /\ server' = IF getBlockTypesEnum(blocksSpecification(server.blocksFile)).threw
                 THEN [server EXCEPT !.phase = "failed"]
                 ELSE [server EXCEPT !.phase = "running",
                                     !.tools = setupToolHandlers(server.enabledTools)]
    /\ UNCHANGED <<document, client, preparedBlocks, now, last, replaced, inflight>>

requireClient_Unchecked(c) == Returned(c)

\* requireClient()
requireClient(c) ==
    IF c = Null THEN Threw("Plone client not configured") ELSE Returned(c)

\* a handler that parses its arguments if it has a schema, requires the
\* client and sends one request
passOn(operation, parses, args, request, httpOk) ==
    IF parses /\ ~args.valid
    THEN BlockOutcome(FALSE, "[" \o operation \o "] Invalid parameters", Null, <<>>, Null)
    ELSE IF requireClient(client).threw
    THEN BlockOutcome(FALSE, wrapError(operation, requireClient(client).error), Null, <<>>, Null)
    ELSE IF httpOk THEN BlockOutcome(TRUE, "", request, <<>>, Null)
    ELSE BlockOutcome(FALSE, wrapError(operation, "Request failed"), request, <<>>, Null)

handleGetContent(args, httpOk) ==
    passOn("GetContent", TRUE, args, [method |-> "GET", path |-> args.path, data |-> EmptyObj], httpOk)

handleDeleteContent(args, httpOk) ==
    passOn("DeleteContent", TRUE, args, [method |-> "DELETE", path |-> args.path, data |-> EmptyObj],
           httpOk)

handleSearch(args, httpOk) ==
    passOn("Search", TRUE, args,
           [method |-> "GET", path |-> "/@search", data |-> ("SearchableText" :> Str(args.path))],
           httpOk)

handleGetSiteInfo(args, httpOk) ==
    passOn("GetSiteInfo", FALSE, args, [method |-> "GET", path |-> "/", data |-> EmptyObj], httpOk)

handleGetTypes(args, httpOk) ==
    passOn("GetTypes", FALSE, args, [method |-> "GET", path |-> "/@types", data |-> EmptyObj], httpOk)

handleGetVocabularies(args, httpOk) ==
    passOn("GetVocabularies", TRUE, args,
           [method |-> "GET", path |-> "/@vocabularies/" \o args.path, data |-> EmptyObj], httpOk)

handleGetWorkflowInfo(args, httpOk) ==
    passOn("GetWorkflowInfo", TRUE, args,
           [method |-> "GET", path |-> args.path \o "/@workflow", data |-> EmptyObj], httpOk)

handleTransitionWorkflow(args, httpOk) ==
    passOn("TransitionWorkflow", TRUE, args,
           [method |-> "POST", path |-> args.path \o "/@workflow/publish",
            data |-> ("transition" :> Str("publish"))], httpOk)

\* handleGetBlockSchemas(args): answered from the registry
handleGetBlockSchemas(args) ==
    IF ~args.valid
    THEN BlockOutcome(FALSE, "[GetBlockSchemas] Invalid parameters", Null, <<>>, Null)
    ELSE BlockOutcome(TRUE, "", Null, <<>>, Null)

\* the one string argument of these tools: a path, a query, a vocabulary
PassOnArgs == {[valid |-> FALSE, path |-> "news"], [valid |-> TRUE, path |-> "news"]}

\* the state change of such a call: none but the call's record
ToolCall(tool, op, args, outcome) ==
    /\ Accepts(tool)
    /\ last' = [NoCall EXCEPT !.op = op, !.args = args, !.ok = outcome.ok,
                              !.error = outcome.error, !.request = outcome.request,
                              !.pre = Summary(preparedBlocks)]
    /\ UNCHANGED <<document, server, inflight, client, preparedBlocks, now, replaced>>

GetContent ==
    \E args \in PassOnArgs, httpOk \in BOOLEAN :
        ToolCall("plone_get_content", "getContent", args, handleGetContent(args, httpOk))

DeleteContent ==
    \E args \in PassOnArgs, httpOk \in BOOLEAN :
        ToolCall("plone_delete_content", "deleteContent", args, handleDeleteContent(args, httpOk))

Search ==
    \E args \in PassOnArgs, httpOk \in BOOLEAN :
        ToolCall("plone_search", "search", args, handleSearch(args, httpOk))

GetSiteInfo ==
    \E args \in PassOnArgs, httpOk \in BOOLEAN :
        ToolCall("plone_get_site_info", "getSiteInfo", args, handleGetSiteInfo(args, httpOk))

GetTypes ==
    \E args \in PassOnArgs, httpOk \in BOOLEAN :
        ToolCall("plone_get_types", "getTypes", args, handleGetTypes(args, httpOk))

GetVocabularies ==
    \E args \in PassOnArgs, httpOk \in BOOLEAN :
        ToolCall("plone_get_vocabularies", "getVocabularies", args,
                 handleGetVocabularies(args, httpOk))

GetWorkflowInfo ==
    \E args \in PassOnArgs, httpOk \in BOOLEAN :
        ToolCall("plone_get_workflow_info", "getWorkflowInfo", args,
                 handleGetWorkflowInfo(args, httpOk))

TransitionWorkflow ==
    \E args \in PassOnArgs, httpOk \in BOOLEAN :
        ToolCall("plone_transition_workflow", "transitionWorkflow", args,
                 handleTransitionWorkflow(args, httpOk))

GetBlockSchemas ==
    \E args \in PassOnArgs :
        ToolCall("plone_get_block_schemas", "getBlockSchemas", args, handleGetBlockSchemas(args))

\* the block operations: preparing a layout and adding, updating and
\* removing a block of a stored document, and reading the block schemas
NextBlocks ==
    \/ Respond
    \/ Configure
    \/ PrepareBlocks
    \/ AddBlock
    \/ UpdateBlock
    \/ RemoveBlock
    \/ GetBlockSchemas

SpecBlocks == Init /\ [][NextBlocks]_vars

NextTools ==
    \/ Startup
    \/ Respond
    \/ Configure
    \/ GetContent
    \/ CreateContent
    \/ UpdateContent
    \/ DeleteContent
    \/ Search
    \/ GetSiteInfo
    \/ GetTypes
    \/ GetVocabularies
    \/ GetWorkflowInfo
    \/ TransitionWorkflow
    \/ GetBlockSchemas
    \/ AddBlock
    \/ UpdateBlock
    \/ RemoveBlock

SpecTools == StartTools /\ [][NextTools]_vars

-----------------------------------------------------------------------------
(* Tool calls that overlap: a handler runs until it awaits, and other      *)
(* handlers run until the awaited request is answered                      *)

AsyncBatches ==
    { <<ImageSpec("url" :> Str(UrlPng)), SlateSpec>>,
      <<SlateSpec, ImageSpec("url" :> Str(DataPng))>>,
      <<ImageSpec("url" :> Str(UrlPng)), ImageSpec("url" :> Str(Url404))>> }

AsyncWrites ==
    { [op |-> "create",
       args |-> [valid |-> TRUE, description |-> Undefined, id |-> Undefined,
                 blocks |-> b.blocks, blocks_layout |-> b.blocks_layout,
                 additionalFields |-> Undefined]] : b \in {NoBlockArgs} }
    \cup
    { [op |-> "update",
       args |-> [valid |-> TRUE, path |-> "/page", title |-> t, description |-> Undefined,
                 blocks |-> Undefined, blocks_layout |-> Undefined,
                 additionalFields |-> Undefined]] : t \in {Str("New")} }

\* a handleCreateBlocksLayout call waiting for validateImageURL(blocks[1].data.url)
AwaitingValidation(args, blocks, processedBlocks, blockIds) ==
    [op |-> "stage", pc |-> "validate", args |-> args, blocks |-> blocks,
     processedBlocks |-> processedBlocks, blockIds |-> blockIds, request |-> Null, pre |-> Null]

\* a create or update call waiting for client.post or client.patch; pre is
\* what it read from the slot, if it did
AwaitingResponse(op, args, request, pre) ==
    [op |-> op, pc |-> "http", args |-> args, blocks |-> <<>>,
     processedBlocks |-> EmptyMap, blockIds |-> <<>>, request |-> request, pre |-> pre]

\* the identifiers held by the suspended handlers and by the slot
AliveIds ==
    SlotIds
    \cup UNION { SeqToSet(task.blockIds) : task \in BagToSet(inflight) }
    \cup UNION { IF task.pre = Null THEN {} ELSE SeqToSet(task.pre.items) :
                   task \in BagToSet(inflight) }

\* the for loop of handleCreateBlocksLayout from blocks[1] on, until it
\* awaits, throws or ends; validated says that validateImageURL has answered
\* true for blocks[1]
RECURSIVE stageRun(_, _, _, _, _)
stageRun(blocks, processedBlocks, blockIds, validated, used) ==
    IF blocks = <<>>
    THEN [pc |-> "done", blocks |-> blocks, processedBlocks |-> processedBlocks,
          blockIds |-> blockIds]
    ELSE
    LET blockSpec == Head(blocks)
    IN IF needsValidation(blockSpec.type, blockSpec.data) /\ ~validated
       THEN [pc |-> "validate", blocks |-> blocks, processedBlocks |-> processedBlocks,
             blockIds |-> blockIds]
       ELSE
       LET blockId == generateBlockId(used \cup SeqToSet(blockIds), 1)
           processedBlock == processBlock(blockSpec.type, blockSpec.data)
       IN IF processedBlock.threw
          THEN [pc |-> "threw", blocks |-> blocks, processedBlocks |-> processedBlocks,
                blockIds |-> blockIds]
          ELSE stageRun(Tail(blocks), MapSet(processedBlocks, blockId, processedBlock.value),
                        pushBlockId(blockIds, blockId), FALSE, used)

\* where a run of the loop leaves the slot and the suspended handlers; rest
\* is the other handlers
stageStep(args, run, rest) ==
    /\ preparedBlocks' =
          CASE run.pc = "done" -> storePrepared(preparedBlocks, run.processedBlocks, run.blockIds, now)
            [] run.pc = "threw" -> stageCatch(preparedBlocks)
            [] OTHER -> preparedBlocks
    /\ inflight' =
          IF run.pc = "validate"
          THEN rest (+) SetToBag({AwaitingValidation(args, run.blocks, run.processedBlocks,
                                                      run.blockIds)})
          ELSE rest

StartAsync ==
    /\ client = [baseUrl |-> BaseUrl]
    /\ preparedBlocks = Null
    /\ now = 0
    /\ last = NoCall
    /\ replaced = Null
    /\ inflight = EmptyBag
    /\ document = Null
    /\ server = Running

\* a plone_create_blocks_layout call arrives and runs until its first await
StageStart ==
    \E q \in AsyncBatches :
        /\ BagCardinality(inflight) < MaxInflight
        /\ stageStep([valid |-> TRUE, blocks |-> q],
                     stageRun(q, EmptyMap, <<>>, FALSE, AliveIds),
                     inflight)
        /\ UNCHANGED <<document, server, client, now, last, replaced>>

\* validateImageURL answers and the call goes on from there
StageResume ==
    \E task \in BagToSet(inflight) :
        LET rest == inflight (-) SetToBag({task})
        IN /\ task.pc = "validate"
           /\ IF validateImageURL(Get(Head(task.blocks).data, "url"))
              THEN stageStep(task.args,
                             stageRun(task.blocks, task.processedBlocks, task.blockIds, TRUE,
                                      AliveIds),
                             rest)
              ELSE /\ preparedBlocks' = stageCatch(preparedBlocks)
                   /\ inflight' = rest
           /\ UNCHANGED <<document, server, client, now, last, replaced>>

\* a create or update call arrives and runs until it awaits the request,
\* or fails before that
WriteStart ==
    \E w \in AsyncWrites :
        LET outcome == IF w.op = "create" THEN handleCreateContent(w.args, TRUE)
                       ELSE handleUpdateContent(w.args, TRUE)
            pre == IF hasPreparedBlocks(preparedBlocks, now) THEN Summary(preparedBlocks) ELSE Null
        IN /\ BagCardinality(inflight) < MaxInflight
           /\ preparedBlocks' = outcome.slot
           /\ inflight' = IF outcome.request = Null THEN inflight
                          ELSE inflight (+) SetToBag({AwaitingResponse(w.op, w.args,
                                                                       outcome.request, pre)})
           /\ UNCHANGED <<document, server, client, now, last, replaced>>

\* the request of a create or update call is answered, or fails
WriteResume ==
    \E task \in BagToSet(inflight), httpOk \in BOOLEAN :
        /\ task.pc = "http"
        /\ preparedBlocks' = IF httpOk THEN preparedBlocks
                             ELSE IF task.op = "create" THEN createCatch(preparedBlocks)
                             ELSE updateCatch(preparedBlocks)
        /\ inflight' = inflight (-) SetToBag({task})
        /\ UNCHANGED <<document, server, client, now, last, replaced>>

NextAsync ==
    \/ StageStart
    \/ StageResume
    \/ WriteStart
    \/ WriteResume

SpecAsync == StartAsync /\ [][NextAsync]_vars

-----------------------------------------------------------------------------
(* plone_add_single_block calls that overlap, on a document the store keeps *)

\* the arguments of the calls: no image address is checked for any of them
StoreAdds ==
    { [valid |-> TRUE, path |-> "/page", blockType |-> "slate",
       blockData |-> ("text" :> Str("Hello World")), position |-> Undefined],
      [valid |-> TRUE, path |-> "/page", blockType |-> "teaser",
       blockData |-> ("title" :> Str("T")), position |-> Num(1)],
      [valid |-> TRUE, path |-> "/page", blockType |-> "image",
       blockData |-> EmptyObj, position |-> Undefined] }

\* a handleAddBlock call: waiting for client.get (pc "get"), waiting for
\* client.patch with the request it sent (pc "patch"), or answered (pc
\* "done"); fetched and patched are the revisions of the document that the
\* GET returned and that the PATCH replaced
AddTask(pc, args, ok, blockId, request, fetched, patched) ==
    [op |-> "addBlock", pc |-> pc, args |-> args, ok |-> ok, blockId |-> blockId,
     request |-> request, fetched |-> fetched, patched |-> patched]

\* the identifiers in the document and in the hands of the calls
StoreIds ==
    DOMAIN document.blocks.val \cup {task.blockId : task \in BagToSet(inflight)}

\* handleAddBlock from the answer of client.get to the call of client.patch,
\* for a block whose address needs no check: the blocks and the layout of the
\* content fetched, with the new block added
addBlockRequest(args, content, blockId) ==
    LET blocks == IF content.blocks # Undefined THEN content.blocks ELSE EmptyMap
        blocks_layout == IF content.blocks_layout # Undefined THEN content.blocks_layout
                         ELSE [items |-> <<>>]
        processed == processBlock(args.blockType, args.blockData)
        position == args.position
        items == IF position # Undefined /\ position.v >= 0
                    /\ position.v <= Len(blocks_layout.items)
                 THEN SpliceIn(blocks_layout.items, position.v, blockId)
                 ELSE Append(blocks_layout.items, blockId)
    IN IF processed.threw THEN Null
       ELSE [method |-> "PATCH", path |-> args.path,
             data |-> ("blocks" :> MapSet(blocks, blockId, processed.value))
                      @@ ("blocks_layout" :> [items |-> items])]

\* PATCH of the document: the fields the request names are replaced
patchDocument(doc, data) ==
    [blocks |-> IF "blocks" \in DOMAIN data THEN data["blocks"] ELSE doc.blocks,
     blocks_layout |-> IF "blocks_layout" \in DOMAIN data THEN data["blocks_layout"]
                       ELSE doc.blocks_layout,
     rev |-> doc.rev + 1]

StartStore ==
    /\ client = [baseUrl |-> BaseUrl]
    /\ preparedBlocks = Null
    /\ now = 0
    /\ last = NoCall
    /\ replaced = Null
    /\ inflight = EmptyBag
    /\ server = Running
    /\ document = [blocks |-> DocBlocks, blocks_layout |-> [items |-> <<"t", "a">>], rev |-> 0]

\* a plone_add_single_block call arrives and runs until it awaits client.get;
\* at most MaxInflight calls are made
AddStart ==
    \E args \in StoreAdds :
        /\ BagCardinality(inflight) < MaxInflight
        /\ inflight' = inflight (+) SetToBag({AddTask("get", args, TRUE, "", Null, 0, 0)})
        /\ UNCHANGED <<document, server, client, preparedBlocks, now, last, replaced>>

\* client.get answers with the document as it is now, or fails; the call
\* goes on until it awaits client.patch, or throws
AddFetched ==
    \E task \in BagToSet(inflight), getOk \in BOOLEAN :
        LET rest == inflight (-) SetToBag({task})
            blockId == generateBlockId(StoreIds, 1)
            request == addBlockRequest(task.args, document, blockId)
        IN /\ task.pc = "get"
           /\ inflight' =
                IF getOk /\ request # Null
                THEN rest (+) SetToBag({AddTask("patch", task.args, TRUE, blockId, request,
                                                document.rev, 0)})
                ELSE rest (+) SetToBag({AddTask("done", task.args, FALSE, "", Null,
                                                document.rev, 0)})
           /\ UNCHANGED <<document, server, client, preparedBlocks, now, last, replaced>>

\* client.patch is answered: the store replaces the fields, or fails
AddPatched ==
    \E task \in BagToSet(inflight), patchOk \in BOOLEAN :
        LET rest == inflight (-) SetToBag({task})
        IN /\ task.pc = "patch"
           /\ document' = IF patchOk THEN patchDocument(document, task.request.data)
                          ELSE document
           /\ inflight' = rest (+) SetToBag({[task EXCEPT !.pc = "done", !.ok = patchOk,
                                                          !.patched = document.rev]})
           /\ UNCHANGED <<server, client, preparedBlocks, now, last, replaced>>

NextStore ==
    \/ AddStart
    \/ AddFetched
    \/ AddPatched

SpecStore == StartStore /\ [][NextStore]_vars

-----------------------------------------------------------------------------
(* Properties *)

WriteOps == {"create", "update"}

\* a create or update call is answered in this step
WriteStep == last = NoCall /\ last'.op \in WriteOps

\* the slot value was written at most 60 seconds before time t
Within60s(prepared, t) == prepared # Null /\ t - prepared.timestamp <= 60000

\* the call's additionalFields carries no block fields of its own
NoOverride(args) ==
    \/ args.additionalFields = Undefined
    \/ {"blocks", "blocks_layout"} \cap DOMAIN args.additionalFields = {}

\* the identifiers callers write; prepare calls only ever generate others
CallerIds == {"", "a", "b", "z"}

\* result holds the staged blocks, unchanged but for a title block being
\* reset, at most one added title block, and no block under a caller's id
BuiltFromStaged(result, staged) ==
    LET sb == staged.blocks.val
        rb == result.blocks.val
    IN /\ DOMAIN sb \subseteq DOMAIN rb
       /\ \A id \in DOMAIN sb :
            \/ rb[id] = sb[id]
            \/ sb[id]["@type"] = Str("title") /\ rb[id] = TitleBlock
       /\ \A id \in DOMAIN rb \ DOMAIN sb : rb[id] = TitleBlock
       /\ Cardinality(DOMAIN rb \ DOMAIN sb) <= 1
       /\ SeqToSet(result.blocks_layout.items) = DOMAIN rb
       /\ DOMAIN rb \cap CallerIds = {}

\* every block of result is a canonical title block or a block of the
\* call's own blocks argument
BuiltFromArgs(result, args) ==
    \A id \in DOMAIN result.blocks.val :
        \/ result.blocks.val[id] = TitleBlock
        \/ /\ args.blocks # Undefined
           /\ id \in DOMAIN args.blocks.val
           /\ result.blocks.val[id] = args.blocks.val[id]

\* the request carries exactly the blocks and layout that were resolved
SendsResolved(call) ==
    /\ "blocks" \in DOMAIN call.request.data
    /\ "blocks_layout" \in DOMAIN call.request.data
    /\ call.request.data["blocks"] = call.blockData.blocks
    /\ call.request.data["blocks_layout"] = call.blockData.blocks_layout

\* the handler gets as far as resolving the blocks
Resolves(call) ==
    call.args.valid /\ client # Null /\ (call.op = "update" => call.args.path # "")

\* C1: a create or update answered while the slot holds a layout staged at
\* most 60 seconds ago resolves and sends blocks built from the staged
\* layout, none from its own blocks / blocks_layout arguments, and leaves the
\* slot empty; a create or update answered while the slot holds no such
\* layout gets no staged block: only blocks of its own arguments and the
\* title block.  (Calls whose additionalFields carries block fields of its
\* own send those instead; they are left out of what is said of the request.)
C1_StagedUsedOnce ==
    [][WriteStep =>
        /\ Within60s(preparedBlocks, now) =>
            /\ preparedBlocks' = Null
            /\ Resolves(last') =>
                /\ last'.blockData \notin {Undefined, Null}
                /\ BuiltFromStaged(last'.blockData, preparedBlocks)
                /\ last'.request # Null
                /\ NoOverride(last'.args) => SendsResolved(last')
        /\ ~Within60s(preparedBlocks, now) =>
            /\ last'.blockData \notin {Undefined, Null} => BuiltFromArgs(last'.blockData, last'.args)
            /\ (last'.request # Null /\ NoOverride(last'.args)) =>
                 IF last'.blockData = Null
                 THEN {"blocks", "blocks_layout"} \cap DOMAIN last'.request.data = {}
                 ELSE SendsResolved(last')
      ]_vars

\* a create call that supplies blocks of its own is answered while a fresh
\* staged layout is in the slot; the request goes out and the slot is empty
C1_Witness ==
    /\ last.op = "create" /\ last.ok
    /\ Within60s(last.pre, now)
    /\ last.args.blocks # Undefined
    /\ last.request # Null
    /\ preparedBlocks = Null

\* the resolve result is the bare title block and nothing else
OnlyTitle(result) ==
    /\ Len(result.blocks_layout.items) = 1
    /\ DOMAIN result.blocks.val = {result.blocks_layout.items[1]}
    /\ result.blocks.val[result.blocks_layout.items[1]] = TitleBlock

\* C2: a create or update answered while the slot holds a layout staged more
\* than 60 seconds ago never uses it; with no blocks supplied it does what it
\* does on an empty slot: an update resolves to absent and sends no block
\* fields, a create sends the default title block only.
C2_ExpiredIsAbsent ==
    (last.op \in WriteOps /\ last.pre # Null /\ now - last.pre.timestamp > 60000
       /\ Resolves(last) /\ last.blockData # Undefined)
    =>
    /\ last.blockData # Null => BuiltFromArgs(last.blockData, last.args)
    /\ (last.args.blocks = Undefined /\ last.args.blocks_layout = Undefined) =>
         IF last.op = "update"
         THEN /\ last.blockData = Null
              /\ (last.request # Null /\ NoOverride(last.args)) =>
                   {"blocks", "blocks_layout"} \cap DOMAIN last.request.data = {}
         ELSE /\ last.blockData # Null
              /\ OnlyTitle(last.blockData)
              /\ last.request # Null
              /\ NoOverride(last.args) => SendsResolved(last)

\* an update with no blocks is answered 60001 ms after a layout was staged
C2_Witness ==
    /\ last.op = "update" /\ last.ok
    /\ last.pre # Null /\ now - last.pre.timestamp > 60000
    /\ last.args.blocks = Undefined /\ last.args.blocks_layout = Undefined
    /\ last.request # Null

\* the normalizer or the image check rejects the specification
BadSpec(spec) ==
    \/ spec.type = "image" /\ Truthy(Get(spec.data, "url"))
         /\ ~validateImageURL(Get(spec.data, "url"))
    \/ processBlock(spec.type, spec.data).threw

\* C3: a prepare call fails as a whole when any one of its specifications is
\* rejected, and a failed prepare call leaves the slot empty, whatever the
\* slot held and however many specifications before the rejected one were
\* acceptable.
C3_StageAllOrNothing ==
    last.op = "stage" =>
        /\ (last.args.valid /\ \E i \in 1..Len(last.args.blocks) : BadSpec(last.args.blocks[i]))
             => ~last.ok
        /\ ~last.ok => preparedBlocks = Null /\ last.ids = <<>>

\* a prepare call whose second specification is rejected after an acceptable
\* first one, answered while a fresh staged layout was in the slot
C3_Witness ==
    /\ last.op = "stage" /\ ~last.ok
    /\ Within60s(last.pre, now)
    /\ Len(last.args.blocks) = 2
    /\ ~BadSpec(last.args.blocks[1])
    /\ BadSpec(last.args.blocks[2])
    /\ preparedBlocks = Null

\* C4: after a create or update call that failed, for whatever reason, the
\* slot is empty.
C4_FailedWriteClears ==
    (last.op \in WriteOps /\ ~last.ok) => preparedBlocks = Null

\* an update that fails with "No changes specified" although the slot held a
\* layout (an expired one, which the call never read)
C4_Witness ==
    /\ last.op = "update" /\ ~last.ok
    /\ last.error = "[UpdateContent] No changes specified for update"
    /\ last.pre # Null
    /\ preparedBlocks = Null

\* the identifiers of the title-type blocks of a blocks mapping
TitleIds(blocks) == {id \in DOMAIN blocks.val : blocks.val[id]["@type"] = Str("title")}

\* the layout is duplicate-free and lists exactly the keys of the mapping
WellFormed(blocks, items) ==
    /\ Cardinality(SeqToSet(items)) = Len(items)
    /\ SeqToSet(items) = DOMAIN blocks.val

\* the blocks and layout a create or update with these arguments works on
\* when the slot holds prepared at time t and the layout is a list: the
\* staged ones if staged at most 60 seconds ago, else the supplied ones, the
\* layout defaulting to the keys of the blocks
ChosenInput(prepared, t, args) ==
    IF Within60s(prepared, t)
    THEN [blocks |-> prepared.blocks, items |-> prepared.blocks_layout.items]
    ELSE LET supplied == IF args.blocks # Undefined THEN args.blocks ELSE EmptyMap
         IN [blocks |-> supplied,
             items |-> IF args.blocks_layout # Undefined
                          /\ Truthy(Get(args.blocks_layout, "items"))
                       THEN Get(args.blocks_layout, "items").v
                       ELSE ObjectKeys(supplied)]

\* a create or update call has been answered with blocks resolved
Resolved(call) == call.op \in WriteOps /\ call.blockData \notin {Undefined, Null}

\* C5 as stated: every resolved result holds exactly one title-type block,
\* and its identifier is the first of the layout.
C5_ExactlyOneTitleFirst ==
    Resolved(last) =>
        /\ Cardinality(TitleIds(last.blockData.blocks)) = 1
        /\ Len(last.blockData.blocks_layout.items) >= 1
        /\ last.blockData.blocks_layout.items[1] \in TitleIds(last.blockData.blocks)

\* C5 as amended: in every resolved result the first identifier of the
\* layout names a title block in canonical form; every title-type block of
\* the input is still there and at most one was added; there is exactly one
\* when the input holds no title-type block, or one only, listed in the
\* layout under a non-empty identifier.
C5_TitleFirst ==
    [][(WriteStep /\ Resolved(last')) =>
        LET input == ChosenInput(preparedBlocks, now, last'.args)
            result == last'.blockData
            titlesIn == TitleIds(input.blocks)
            titlesOut == TitleIds(result.blocks)
        IN /\ Len(result.blocks_layout.items) >= 1
           /\ result.blocks_layout.items[1] \in DOMAIN result.blocks.val
           /\ result.blocks.val[result.blocks_layout.items[1]] = TitleBlock
           /\ titlesIn \subseteq titlesOut
           /\ Cardinality(titlesOut \ titlesIn) <= 1
           /\ (\/ titlesIn = {}
               \/ /\ Cardinality(titlesIn) = 1
                  /\ titlesIn \subseteq SeqToSet(input.items) \ {""})
                => Cardinality(titlesOut) = 1
      ]_vars

\* a supplied title block listed second comes out first
C5_Witness ==
    /\ last.op = "create" /\ last.ok
    /\ last.pre = Null
    /\ last.args.blocks_layout = ("items" :> Arr(<<"a", "b">>))
    /\ last.blockData.blocks_layout.items = <<"b", "a">>
    /\ TitleIds(last.blockData.blocks) = {"b"}

\* the request of the call carries blocks and a layout resolved from the
\* staged layout or the blocks arguments
SendsBlocks(call) ==
    /\ Resolved(call)
    /\ call.request # Null
    /\ NoOverride(call.args)

\* C6 as stated: in every payload sent, from the staged layout or from
\* supplied blocks, the layout is duplicate-free and its identifiers are
\* exactly the keys of the blocks mapping.
C6_LayoutMatchesBlocks ==
    SendsBlocks(last) =>
        WellFormed(last.request.data["blocks"], last.request.data["blocks_layout"].items)

\* C6 as amended: the layout of a payload sent is duplicate-free and lists
\* exactly the keys of the blocks mapping when the payload comes from the
\* staged layout, and when it comes from supplied blocks and/or
\* blocks_layout that are so themselves (the layout defaulting to the keys);
\* a supplied layout that is not is not repaired.
C6_WellFormedKept ==
    [][(WriteStep /\ SendsBlocks(last')) =>
        LET input == ChosenInput(preparedBlocks, now, last'.args)
            sent == last'.request.data
        IN /\ Within60s(preparedBlocks, now) => WellFormed(input.blocks, input.items)
           /\ WellFormed(input.blocks, input.items) =>
                WellFormed(sent["blocks"], sent["blocks_layout"].items)
      ]_vars

\* a staged layout is sent with a title block added in front
C6_Witness ==
    /\ last.op = "update" /\ last.ok
    /\ Within60s(last.pre, now)
    /\ SendsBlocks(last)
    /\ Len(last.request.data["blocks_layout"].items) = Len(last.pre.items) + 1

\* the call supplies neither blocks nor blocks_layout
NothingSupplied(call) ==
    call.args.blocks = Undefined /\ call.args.blocks_layout = Undefined

\* C7: an update answered while the slot holds no layout staged at most 60
\* seconds ago, with neither blocks nor blocks_layout supplied, resolves to
\* absent, and the PATCH it sends, if any, has no blocks and no blocks_layout
\* field (additionalFields naming none).
C7_UpdateAbsent ==
    (last.op = "update" /\ Resolves(last) /\ ~Within60s(last.pre, now)
       /\ NothingSupplied(last))
    =>
    /\ last.blockData = Null
    /\ (last.request # Null /\ NoOverride(last.args)) =>
         {"blocks", "blocks_layout"} \cap DOMAIN last.request.data = {}

\* an update of the title alone is sent while the slot is empty
C7_Witness ==
    /\ last.op = "update" /\ last.ok
    /\ last.pre = Null
    /\ NothingSupplied(last)
    /\ last.request # Null
    /\ DOMAIN last.request.data = {"title", "description"}

StageStep == last = NoCall /\ last'.op = "stage"

\* C9: a successful prepare call answered while the slot holds a layout
\* leaves in the slot its own blocks only, under new identifiers, stamped
\* with the time of this call; the next create or update uses the slot if
\* and only if that stamp is at most 60 seconds old, and then sends blocks
\* of the slot only.
C9_SecondStageWins ==
    [][/\ (StageStep /\ last'.ok /\ preparedBlocks # Null) =>
            /\ preparedBlocks'.blocks_layout.items
                 = [i \in 1..Len(last'.ids) |-> last'.ids[i].id]
            /\ Len(last'.ids) = Len(last'.args.blocks)
            /\ DOMAIN preparedBlocks'.blocks.val = SeqToSet(preparedBlocks'.blocks_layout.items)
            /\ DOMAIN preparedBlocks'.blocks.val \cap DOMAIN preparedBlocks.blocks.val = {}
            /\ preparedBlocks'.timestamp = now
       /\ (WriteStep /\ replaced # Null /\ Resolves(last')) =>
            /\ preparedBlocks # Null
            /\ IF now - preparedBlocks.timestamp <= 60000
               THEN /\ Resolved(last')
                    /\ BuiltFromStaged(last'.blockData, preparedBlocks)
                    /\ preparedBlocks' = Null
               ELSE Resolved(last') => BuiltFromArgs(last'.blockData, last'.args)
      ]_vars

\* a create or update uses a layout staged over one that had expired by then
C9_Witness ==
    /\ last.op \in WriteOps /\ last.ok
    /\ last.replaced # Null
    /\ now - last.replaced.v > 60000
    /\ Within60s(last.pre, now)
    /\ last.request # Null
    /\ last.pre.items # <<>>

\* C10: after a successful prepare call of N specifications without position
\* the staged layout lists N distinct new identifiers, the i-th naming the
\* block made from the i-th specification, and the list reported gives the
\* same identifiers with the specifications' types in the same order.
C10_StageKeepsOrder ==
    (last.op = "stage" /\ last.ok
       /\ \A i \in 1..Len(last.args.blocks) : last.args.blocks[i].position = Undefined)
    =>
    LET items == preparedBlocks.blocks_layout.items
        N == Len(last.args.blocks)
    IN /\ Len(items) = N
       /\ Len(last.ids) = N
       /\ Cardinality(SeqToSet(items)) = N
       /\ DOMAIN preparedBlocks.blocks.val = SeqToSet(items)
       /\ last.pre # Null => SeqToSet(items) \cap SeqToSet(last.pre.items) = {}
       /\ \A i \in 1..N :
            /\ last.ids[i].id = items[i]
            /\ last.ids[i].type = last.args.blocks[i].type
            /\ preparedBlocks.blocks.val[items[i]]
                 = processBlock(last.args.blocks[i].type, last.args.blocks[i].data).value

\* two specifications of different types have been staged
C10_Witness ==
    /\ last.op = "stage" /\ last.ok
    /\ Len(last.args.blocks) = 2
    /\ last.args.blocks[1].type = "slate"
    /\ last.args.blocks[2].type = "title"
    /\ preparedBlocks # Null

\* the layout after the id is put at the position asked for: at that index
\* when it is within the layout built so far, at the end otherwise
PlacedAt(items, position, id) ==
    IF position # Undefined /\ position.v >= 0 /\ position.v <= Len(items)
    THEN SubSeq(items, 1, position.v) \o <<id>> \o SubSeq(items, position.v + 1, Len(items))
    ELSE Append(items, id)

\* the layout that placing the i-th id at the i-th position, in turn, builds
RECURSIVE PlacedLayout(_, _, _)
PlacedLayout(specs, ids, built) ==
    IF specs = <<>> THEN built
    ELSE PlacedLayout(Tail(specs), Tail(ids), PlacedAt(built, Head(specs).position, Head(ids).id))

\* C11: after a successful prepare call the staged layout is the one built
\* by putting each new id at the position its specification names, and at
\* the end when it names none or one out of range.
C11_PositionRespected ==
    (last.op = "stage" /\ last.ok) =>
        preparedBlocks.blocks_layout.items = PlacedLayout(last.args.blocks, last.ids, <<>>)

BlockOps == {"addBlock", "updateBlock", "removeBlock"}

\* the document the call fetched has exactly one title-type block, and it
\* is the first of the layout
TitleFirstIn(blocks, items) ==
    /\ Cardinality(TitleIds(blocks)) = 1
    /\ Len(items) >= 1
    /\ items[1] \in TitleIds(blocks)

\* C14: when the fetched document has exactly one title block, first in its
\* layout, the payload plone_add_block sends has exactly one title-type
\* block, first in its layout, whatever the block type and the position.
C14_AddBlockKeepsTitleFirst ==
    (last.op = "addBlock" /\ last.request # Null
       /\ last.fetched.blocks # Undefined /\ last.fetched.blocks_layout # Undefined
       /\ TitleFirstIn(last.fetched.blocks, last.fetched.blocks_layout.items))
    =>
    TitleFirstIn(last.request.data["blocks"], last.request.data["blocks_layout"].items)

\* the keys of the blocks mapping the call fetched
FetchedKeys(call) ==
    IF call.fetched.blocks = Undefined THEN <<>> ELSE call.fetched.blocks.keys

\* the operation name the handler's errors carry
ErrorTag(op) ==
    CASE op = "addBlock" -> "AddBlock"
      [] op = "updateBlock" -> "UpdateBlock"
      [] op = "removeBlock" -> "RemoveBlock"
      [] op = "stage" -> "CreateBlocksLayout"

\* the not-found error for the call, listing the keys in the given order
RECURSIVE Listed(_)
Listed(keys) ==
    IF keys = <<>> THEN ""
    ELSE IF Len(keys) = 1 THEN keys[1]
    ELSE keys[1] \o ", " \o Listed(Tail(keys))

\* C15: plone_update_block and plone_remove_block with a block id that is
\* not a key of the fetched blocks fail with the not-found error that lists
\* the keys, and send no PATCH.
C15_UnknownBlockFails ==
    (last.op \in {"updateBlock", "removeBlock"} /\ last.fetched # Null
       /\ last.args.blockId \notin SeqToSet(FetchedKeys(last)))
    =>
    /\ ~last.ok
    /\ last.request = Null
    /\ last.error = "[" \o ErrorTag(last.op) \o "] Block with ID '" \o last.args.blockId
                      \o "' not found. Available block IDs: " \o Listed(FetchedKeys(last))

\* the url of an image specification is missing or the empty string
NoUrl(blockType, blockData) ==
    blockType = "image" /\ Get(blockData, "url") \in {Undefined, Str("")}

\* the prepare call gets as far as its i-th specification
StageReaches(call, i) ==
    call.args.valid /\ \A j \in 1..(i - 1) : ~BadSpec(call.args.blocks[j])

\* the urls of the image specifications before the i-th
UrlsBefore(call, i) ==
    LET images == FilterSeq([j \in 1..(i - 1) |-> j],
                            {j \in 1..(i - 1) : call.args.blocks[j].type = "image"})
    IN [k \in 1..Len(images) |-> call.args.blocks[images[k]].data["url"]]

\* C16: a prepare call that reaches an image specification without url or
\* with the empty string as url, and an add-block call for such a block,
\* fail with the normalizer's "Missing or invalid image URL" error without
\* validateImageURL having been called for that block; nothing is staged
\* and no PATCH is sent.
C16_NoUrlFailsUnchecked ==
    /\ last.op = "stage" =>
         \A i \in 1..Len(last.args.blocks) :
            (StageReaches(last, i)
               /\ NoUrl(last.args.blocks[i].type, last.args.blocks[i].data))
            => /\ ~last.ok
               /\ last.error = "[CreateBlocksLayout] [ProcessBlock] Missing or invalid image URL"
               /\ last.checked = UrlsBefore(last, i)
               /\ preparedBlocks = Null
    /\ (last.op = "addBlock" /\ last.fetched # Null
          /\ NoUrl(last.args.blockType, last.args.blockData))
       => /\ ~last.ok
          /\ last.error
               = "[AddBlock] Error processing block data: [ProcessBlock] Missing or invalid image URL"
          /\ last.checked = <<>>
          /\ last.request = Null

\* a prepare call fails on the empty url of its second specification while
\* a layout was staged
C16_Witness ==
    /\ last.op = "stage" /\ ~last.ok
    /\ last.pre # Null
    /\ Len(last.args.blocks) = 2
    /\ last.args.blocks[2].type = "image"
    /\ Get(last.args.blocks[2].data, "url") = Str("")
    /\ last.checked = <<>>

\* the addresses that answer a HEAD request with an image content type, and
\* the data urls of an image type
ImageUrls == {Str(UrlPng), Str(DataPng)}

\* the image-type blocks of a blocks mapping
ImageIds(blocks) == {id \in DOMAIN blocks.val : blocks.val[id]["@type"] = Str("image")}

\* C17: every image block a prepare call stages or an add-block call sends
\* carries a url that validateImageURL was called with and that is the
\* address of an image; a call that reaches an image block whose url is set
\* and is not such an address ends with the "Invalid or inaccessible image
\* URL" error, stages nothing and sends no PATCH.
C17_ImagesAreChecked ==
    /\ last.op = "stage" =>
         /\ last.ok =>
              \A id \in ImageIds(preparedBlocks.blocks) :
                 /\ preparedBlocks.blocks.val[id]["url"] \in ImageUrls
                 /\ preparedBlocks.blocks.val[id]["url"] \in SeqToSet(last.checked)
         /\ \A i \in 1..Len(last.args.blocks) :
              (StageReaches(last, i) /\ last.args.blocks[i].type = "image"
                 /\ Truthy(Get(last.args.blocks[i].data, "url"))
                 /\ Get(last.args.blocks[i].data, "url") \notin ImageUrls)
              => /\ ~last.ok
                 /\ last.error
                      = "[CreateBlocksLayout] [CreateBlocksLayout] Invalid or inaccessible image URL"
                 /\ preparedBlocks = Null
    /\ (last.op = "addBlock" /\ last.fetched # Null) =>
         /\ last.request # Null =>
              \A id \in ImageIds(last.request.data["blocks"]) \ SeqToSet(FetchedKeys(last)) :
                 /\ last.request.data["blocks"].val[id]["url"] \in ImageUrls
                 /\ last.checked = <<last.request.data["blocks"].val[id]["url"]>>
         /\ (last.args.blockType = "image" /\ Truthy(Get(last.args.blockData, "url"))
               /\ Get(last.args.blockData, "url") \notin ImageUrls)
            => /\ ~last.ok
               /\ last.error = "[AddBlock] [AddBlock] Invalid or inaccessible image URL"
               /\ last.request = Null

\* an add-block call for an image whose address answers with text/html
C17_Witness ==
    /\ last.op = "addBlock" /\ ~last.ok
    /\ last.fetched # Null
    /\ last.args.blockType = "image"
    /\ last.args.blockData = ("url" :> Str(UrlHtml))
    /\ last.checked = <<Str(UrlHtml)>>
    /\ last.request = Null

\* the ids of a layout other than id, in order
Others(layout, id) == FilterSeq(layout, SeqToSet(layout) \ {id})

\* the title step has run on last.args and last.blockData is what it returned
Enforced == last.op \in {"enforceTitle", "enforceTitleAgain"}

\* C12: when the layout names a title-type block, the title step puts its id
\* first, keeps the other ids in their order, and leaves the block with the
\* discriminator only
C12_TitleMovedAndReset ==
    Enforced =>
        LET found == FindTitle(last.args.layout, last.args.blocks)
            items == last.blockData.blocks_layout.items
        IN found # Undefined =>
              /\ items # <<>> /\ items[1] = found.v
              /\ Others(items, found.v) = Others(last.args.layout, found.v)
              /\ MapGet(last.blockData.blocks, found.v) = TitleBlock

\* the same, for title blocks whose id is not the empty string
C12_NonEmptyIds ==
    Enforced =>
        LET found == FindTitle(last.args.layout, last.args.blocks)
            items == last.blockData.blocks_layout.items
        IN (found # Undefined /\ found.v # "") =>
              /\ items # <<>> /\ items[1] = found.v
              /\ Others(items, found.v) = Others(last.args.layout, found.v)
              /\ MapGet(last.blockData.blocks, found.v) = TitleBlock

\* C13: the title step applied to its own output returns that output: the
\* same layout, the same blocks, and no identifier is generated
C13_EnforceTitleIdempotent ==
    last.op = "enforceTitleAgain" =>
        /\ last.blockData.blocks_layout.items = last.args.layout
        /\ last.blockData.blocks = last.args.blocks
        /\ last.ids = <<>>

\* the second run, on a first run's output that lists three ids under a title
C13_Witness ==
    /\ last.op = "enforceTitleAgain"
    /\ Len(last.args.layout) = 3
    /\ FindTitle(last.args.layout, last.args.blocks) = Str(last.args.layout[1])
    /\ last.blockData.blocks_layout.items = last.args.layout

\* processBlock has run on last.args for a block of one of these types
Normalized(types) == last.op = "processBlock" /\ last.args.blockType \in types

\* C18: for teaser and __button blocks a string href is wrapped in a
\* one-element reference array, an array href is passed through, any other
\* present href fails, and without href the result has none
C18_HrefNormalized ==
    Normalized({"teaser", "__button"}) =>
        LET href == Get(last.args.blockData, "href")
        IN IF ~Has(last.args.blockData, "href")
           THEN last.ok /\ ~Has(last.blockData, "href")
           ELSE IF href.t = "string"
           THEN last.ok /\ Get(last.blockData, "href") = Arr(<<("@id" :> href)>>)
           ELSE IF href.t = "array"
           THEN last.ok /\ Get(last.blockData, "href") = href
           ELSE ~last.ok

\* the same, for href values JavaScript reads as true
C18_TruthyHref ==
    (Normalized({"teaser", "__button"}) /\ Truthy(Get(last.args.blockData, "href"))) =>
        LET href == Get(last.args.blockData, "href")
        IN IF href.t = "string"
           THEN last.ok /\ Get(last.blockData, "href") = Arr(<<("@id" :> href)>>)
           ELSE IF href.t = "array"
           THEN last.ok /\ Get(last.blockData, "href") = href
           ELSE ~last.ok /\ last.error = "[ProcessBlock] Invalid href format"

\* C19: for slate and text blocks a text that is present and not a string
\* fails, whatever the value
C19_NonStringTextFails ==
    (/\ Normalized({"slate", "text"})
     /\ Has(last.args.blockData, "text")
     /\ Get(last.args.blockData, "text").t # "string") => ~last.ok

\* the same, for text values JavaScript reads as true
C19_TruthyText ==
    (/\ Normalized({"slate", "text"})
     /\ Truthy(Get(last.args.blockData, "text"))
     /\ Get(last.args.blockData, "text").t # "string")
        => ~last.ok /\ last.error = "Input must be a string"

\* every node of the trees is a text leaf or has at least one child, and so
\* on below it
RECURSIVE NeverChildless(_)
NeverChildless(nodes) ==
    \A i \in 1..Len(nodes) :
        IF "children" \in DOMAIN nodes[i]
        THEN nodes[i].children # <<>> /\ NeverChildless(nodes[i].children)
        ELSE "text" \in DOMAIN nodes[i]

\* the nodes that may be left without children appear nowhere in the trees
RECURSIVE OnlyGuarded(_)
OnlyGuarded(nodes) ==
    \A i \in 1..Len(nodes) :
        "children" \in DOMAIN nodes[i] =>
            /\ nodes[i].type \in {"p", "li", "link", "ul", "ol"}
            /\ OnlyGuarded(nodes[i].children)

\* C20: in a tree the parser returns, every node that is not a text leaf has
\* at least one child
C20_NoChildlessNode ==
    last.op = "transform" => NeverChildless(last.blockData.v)

\* the same, for trees made of paragraphs, lists, list items and links only
C20_GuardedNodes ==
    (last.op = "transform" /\ OnlyGuarded(last.blockData.v)) => NeverChildless(last.blockData.v)

\* the node kinds transform has a case for
RecognizedTypes ==
    {"root", "heading", "paragraph", "blockquote", "list", "listItem", "strong", "emphasis",
     "delete", "superscript", "subscript", "link", "text", "thematicBreak"}

\* a sequence of syntax-tree nodes with every thematic break taken out and
\* every node of another kind replaced, at its place, by its own children
RECURSIVE SplicedIn(_)
SplicedIn(nodes) ==
    IF nodes = <<>> THEN <<>>
    ELSE LET node == Head(nodes)
             below == IF "children" \in DOMAIN node THEN SplicedIn(node["children"]) ELSE <<>>
             rest == SplicedIn(Tail(nodes))
         IN IF node["type"] = "thematicBreak" THEN rest
            ELSE IF node["type"] \notin RecognizedTypes THEN below \o rest
            ELSE IF "children" \in DOMAIN node
            THEN <<[node EXCEPT !["children"] = below]>> \o rest
            ELSE <<node>> \o rest

RECURSIVE HasUnsupported(_)
HasUnsupported(nodes) ==
    \E i \in 1..Len(nodes) :
        \/ nodes[i]["type"] \notin RecognizedTypes /\ "children" \in DOMAIN nodes[i]
        \/ "children" \in DOMAIN nodes[i] /\ HasUnsupported(nodes[i]["children"])

\* C21: the transform of a syntax tree is the transform of the tree without
\* its thematic breaks and with the children of every unsupported node in
\* that node's place
C21_UnsupportedSplicedIn ==
    last.op = "transform" =>
        last.blockData = Arr(transformRoot(MdNode("root", SplicedIn(last.args.ast["children"]))))

\* a tree with a table between two thematic breaks and two paragraphs
C21_Witness ==
    /\ last.op = "transform"
    /\ HasUnsupported(last.args.ast["children"])
    /\ \E i \in 1..Len(last.args.ast["children"]) : last.args.ast["children"][i]["type"] = "thematicBreak"
    /\ Len(last.blockData.v) = 3
    /\ last.blockData.v[2] = [text |-> "a"]

\* the suspended create and update calls that took their layout from the slot
Consumers == {task \in BagToSet(inflight) : task.pc = "http" /\ task.pre # Null}

\* the suspended stage calls, each with the part of its batch built so far
Stagers == {task \in BagToSet(inflight) : task.pc = "validate"}

\* blocks, laid out as items, is what a whole batch of a stage call becomes
WholeBatch(blocks, items) ==
    \E q \in AsyncBatches :
        /\ Len(items) = Len(q)
        /\ \A k \in 1..Len(q) :
              MapHas(blocks, items[k]) /\ Get(MapGet(blocks, items[k]), "@type") = Str(q[k].type)

\* C22: with calls overlapping at their awaits, no staged layout is taken by
\* two writes or left in the slot by the write that took it, and what a
\* write takes, like what the slot holds, is the whole batch of a finished
\* stage call, sharing nothing with a batch still being built
C22_ReadAndClearAtomic ==
    /\ \A w \in Consumers :
          /\ CopiesIn(w, inflight) = 1
          /\ \A v \in Consumers \ {w} : SeqToSet(w.pre.items) \cap SeqToSet(v.pre.items) = {}
          /\ SeqToSet(w.pre.items) \cap SlotIds = {}
          /\ WholeBatch(w.request.data["blocks"], w.pre.items)
          /\ \A s \in Stagers : SeqToSet(w.pre.items) \cap SeqToSet(s.blockIds) = {}
    /\ preparedBlocks # Null =>
          /\ WholeBatch(preparedBlocks.blocks, preparedBlocks.blocks_layout.items)
          /\ \A s \in Stagers : SlotIds \cap SeqToSet(s.blockIds) = {}

\* a write waits for its answer with the layout it took, the slot holds a
\* layout staged since, and a stage call has built half of its batch
C22_Witness ==
    /\ \E w \in Consumers : w.op = "update"
    /\ preparedBlocks # Null
    /\ \E s \in Stagers : Len(s.blockIds) = 1

\* the handlers that talk to the document store, with the name each gives
\* wrapError
StoreOps ==
    [getContent |-> "GetContent", create |-> "CreateContent", update |-> "UpdateContent",
     deleteContent |-> "DeleteContent", search |-> "Search", getSiteInfo |-> "GetSiteInfo",
     getTypes |-> "GetTypes", getVocabularies |-> "GetVocabularies",
     getWorkflowInfo |-> "GetWorkflowInfo", transitionWorkflow |-> "TransitionWorkflow",
     addBlock |-> "AddBlock", updateBlock |-> "UpdateBlock", removeBlock |-> "RemoveBlock"]

\* the arguments of the call pass the handler's schema, if it has one
WellTyped == last.op \in {"getSiteInfo", "getTypes"} \/ last.args.valid

\* the call was answered without any request to the document store
NoRequest == last.request = Null /\ last.fetched = Null

\* C23: the client is set by plone_configure only, and while it is not set
\* every call of a tool that talks to the document store fails and sends no
\* request, with the 'Plone client not configured' error when its arguments
\* are well-typed
C23_NotConfiguredFails ==
    /\ []((last.op \in DOMAIN StoreOps /\ client = Null) =>
            /\ ~last.ok
            /\ NoRequest
            /\ (WellTyped =>
                  last.error = wrapError(StoreOps[last.op], "Plone client not configured")))
    /\ [][client' # client => last'.op = "configure"]_vars

\* a search before any plone_configure call
C23_Witness ==
    /\ client = Null
    /\ last.op = "search" /\ last.args.valid
    /\ ~last.ok /\ last.error = "[Search] Plone client not configured"
    /\ NoRequest

\* the tool names in a value of ENABLED_TOOLS
NamedIn(enabledTools) ==
    UNION { SeqToSet(q) : q \in {r \in EnabledLists : Join(r, ",") = enabledTools.v} }

\* C24: a running server whose ENABLED_TOOLS is set has the tools named in
\* it and plone_configure, and no others; one whose ENABLED_TOOLS is not set
\* has all tools
C24_OnlyEnabledTools ==
    server.phase = "running" =>
        server.tools = IF server.enabledTools = Undefined THEN ToolNames
                       ELSE NamedIn(server.enabledTools) \cup {"plone_configure"}

\* the same, for a process without ENABLED_TOOLS
C24_AllToolsByDefault ==
    (server.phase = "running" /\ server.enabledTools = Undefined) => server.tools = ToolNames

\* C25: a process that cannot read or parse blocks.json never runs and
\* never answers a tool call
C25_FailsAtStartup ==
    server.blocksFile \in {"malformed", "missing"} =>
        /\ server.phase # "running"
        /\ last = NoCall

\* such a process after its start
C25_Witness ==
    /\ server.blocksFile = "malformed"
    /\ server.phase = "failed"

\* the calls that work on a stored document's blocks or read the schemas
BlockToolOps == {"addBlock", "updateBlock", "removeBlock", "getBlockSchemas"}

\* C26: a call of addBlock, updateBlock, removeBlock or getBlockSchemas,
\* whether it succeeds or fails, leaves the slot as it was
C26_BlockToolsKeepSlot ==
    [][last'.op \in BlockToolOps => preparedBlocks' = preparedBlocks]_vars

\* a removeBlock call has failed and the layout staged before it is there
C26_Witness ==
    /\ last.op = "removeBlock" /\ ~last.ok
    /\ preparedBlocks # Null
    /\ last.pre = Summary(preparedBlocks)

\* the blocks and the layout of the document a block call fetched
FetchedBlocks == IF last.fetched.blocks = Undefined THEN EmptyMap ELSE last.fetched.blocks
FetchedItems ==
    IF last.fetched.blocks_layout = Undefined THEN <<>> ELSE last.fetched.blocks_layout.items

\* the blocks and the layout of the PATCH a block call sent
SentBlocks == last.request.data["blocks"]
SentItems == last.request.data["blocks_layout"].items

\* the blocks of the fetched document are sent as they were, but for id
OtherBlocksKept(id) ==
    \A k \in DOMAIN FetchedBlocks.val \ {id} :
        MapHas(SentBlocks, k) /\ MapGet(SentBlocks, k) = MapGet(FetchedBlocks, k)

\* C27: the PATCH of plone_add_single_block has the fetched blocks and one
\* new block, the normalized one, and the fetched layout with the new id at
\* index position when 0 <= position <= length, at the end otherwise
C27_AddBlockInsertsAtPosition ==
    (last.op = "addBlock" /\ last.request # Null) =>
        \E id \in DOMAIN SentBlocks.val \ DOMAIN FetchedBlocks.val :
            LET position == last.args.position
                index == IF position # Undefined /\ position.v >= 0
                            /\ position.v <= Len(FetchedItems)
                         THEN position.v + 1 ELSE Len(FetchedItems) + 1
            IN /\ DOMAIN SentBlocks.val = DOMAIN FetchedBlocks.val \cup {id}
               /\ OtherBlocksKept(id)
               /\ MapGet(SentBlocks, id) = processBlock(last.args.blockType, last.args.blockData).value
               /\ Len(SentItems) = Len(FetchedItems) + 1
               /\ SentItems[index] = id
               /\ Others(SentItems, id) = FetchedItems

\* a block added at position 1 of a layout of two
C27_Witness ==
    /\ last.op = "addBlock" /\ last.ok
    /\ last.args.position = Num(1)
    /\ FetchedItems = <<"t", "a">>
    /\ Len(SentItems) = 3 /\ SentItems[1] = "t" /\ SentItems[3] = "a"

\* what plone_remove_single_block is to send for the block id
Removed(id) ==
    /\ ~MapHas(SentBlocks, id)
    /\ id \notin SeqToSet(SentItems)
    /\ DOMAIN SentBlocks.val = DOMAIN FetchedBlocks.val \ {id}
    /\ OtherBlocksKept(id)
    /\ SentItems = Others(FetchedItems, id)

\* C28: the PATCH of a successful plone_remove_single_block has the id
\* neither among the blocks nor in the layout, every other block as it was,
\* and the other ids of the layout in their order
C28_RemoveBlockRemoves ==
    (last.op = "removeBlock" /\ last.ok) => Removed(last.args.blockId)

\* the same, for documents whose layout names the block at most once
C28_NamedOnce ==
    (/\ last.op = "removeBlock" /\ last.ok
     /\ Len(FetchedItems) - Len(Others(FetchedItems, last.args.blockId)) <= 1)
        => Removed(last.args.blockId)

\* what plone_update_single_block is to send for the block id and data
Merged(id, data) ==
    LET before == spreadBlock(FetchedBlocks, id)
        after == MapGet(SentBlocks, id)
    IN /\ DOMAIN SentBlocks.val = DOMAIN FetchedBlocks.val
       /\ OtherBlocksKept(id)
       /\ DOMAIN after = DOMAIN before \cup DOMAIN data
       /\ \A f \in DOMAIN data : after[f] = data[f]
       /\ \A f \in DOMAIN before \ DOMAIN data : after[f] = before[f]
       /\ "blocks_layout" \notin DOMAIN last.request.data

\* C29: the PATCH of a successful plone_update_single_block has the block
\* with the supplied fields set and its other fields kept, every other block
\* as it was, no block more or less, and no layout
C29_UpdateBlockMerges ==
    (last.op = "updateBlock" /\ last.ok) => Merged(last.args.blockId, last.args.blockData)

\* the same, for ids that are keys of the fetched blocks
C29_ExistingBlock ==
    (last.op = "updateBlock" /\ last.ok /\ MapHas(FetchedBlocks, last.args.blockId))
        => Merged(last.args.blockId, last.args.blockData)

\* addresses that are no image: not found, unreachable, a page, a text
NoImageUrls == {Url404, UrlDown, UrlHtml, DataTxt}

\* the arguments name an image at such an address
ImageUrlFails(args) ==
    /\ args.blockType = "image"
    /\ Get(args.blockData, "url").t = "string"
    /\ Get(args.blockData, "url").v \in NoImageUrls

\* C30: a plone_add_single_block call whose image address is no image, or
\* whose block data processBlock rejects, fails and sends no PATCH
C30_FailedAddSendsNothing ==
    (/\ last.op = "addBlock" /\ last.fetched # Null
     /\ \/ ImageUrlFails(last.args)
        \/ processBlock(last.args.blockType, last.args.blockData).threw)
        => ~last.ok /\ last.request = Null

\* an image at an address that cannot be reached
C30_Witness ==
    /\ last.op = "addBlock" /\ last.fetched # Null /\ ~last.ok /\ last.request = Null
    /\ Get(last.args.blockData, "url") = Str(UrlDown)

-----------------------------------------------------------------------------
(* The finalized block record *)

RichTextTypes == {"slate", "text"}

\* the types whose raw fields processBlock copies without looking at them
PassThrough(blockType) == blockType \notin RichTextTypes \cup {"teaser", "__button"}

\* C31: every record processBlock returns has the "@type" field; for every
\* type but slate and text it equals the requested block type, whatever
\* "@type" the raw data carried (slate and text both give "slate"); for a
\* pass-through type the record has the raw fields and "@type" and nothing
\* else, and every raw field other than "@type" has its raw value
C31_DiscriminatorSet ==
    (last.op = "processBlock" /\ last.ok) =>
        LET blockType == last.args.blockType
            raw == last.args.blockData
        IN /\ Has(last.blockData, "@type")
           /\ blockType \notin RichTextTypes => last.blockData["@type"] = Str(blockType)
           /\ blockType \in RichTextTypes => last.blockData["@type"] = Str("slate")
           /\ PassThrough(blockType) =>
                /\ DOMAIN last.blockData = DOMAIN raw \cup {"@type"}
                /\ \A k \in DOMAIN raw \ {"@type"} : last.blockData[k] = raw[k]

\* a pass-through block whose raw data names another type and has two more
\* fields has been normalized
C31_Witness ==
    /\ last.op = "processBlock" /\ last.ok
    /\ PassThrough(last.args.blockType)
    /\ Has(last.args.blockData, "@type")
    /\ last.args.blockData["@type"] # Str(last.args.blockType)
    /\ Cardinality(DOMAIN last.args.blockData) = 3
    /\ last.blockData["@type"] = Str(last.args.blockType)

-----------------------------------------------------------------------------
(* The block of a page created with a title only *)

\* a create with no blocks of its own is sent while no layout staged at most
\* 60 seconds ago is in the slot
TitleOnlyCreate ==
    /\ last.op = "create" /\ Resolves(last) /\ ~Within60s(last.pre, now)
    /\ NothingSupplied(last) /\ NoOverride(last.args)
    /\ last.request # Null

\* the blocks the request carries, and the one its layout lists first
CreatedBlocks == last.request.data["blocks"].val
FirstCreated == CreatedBlocks[last.request.data["blocks_layout"].items[1]]

\* markdownParse of the title written as a level-one heading
H1Of(title) == <<[type |-> "h1", children |-> <<[text |-> title.v]>>]>>

-----------------------------------------------------------------------------
(* What a finished stage call leaves in the slot *)

\* the identifiers the suspended handlers hold: those a stage call has
\* generated so far and those a write took from the slot
IdsInFlight ==
    UNION { SeqToSet(task.blockIds) : task \in BagToSet(inflight) }
    \cup UNION { IF task.pre = Null THEN {} ELSE SeqToSet(task.pre.items) :
                   task \in BagToSet(inflight) }

\* C33: whenever the slot holds a layout, also among overlapping calls, it
\* is what one stage call of N specifications stored: the layout lists N
\* distinct identifiers, these are the keys of the blocks, the k-th names the
\* block made from that call's k-th specification, and no other call holds
\* any of them
C33_StagedFromOneCall ==
    preparedBlocks # Null =>
        \E specs \in AsyncBatches :
            LET items == preparedBlocks.blocks_layout.items
                N == Len(specs)
            IN /\ Len(items) = N
               /\ Cardinality(SeqToSet(items)) = N
               /\ DOMAIN preparedBlocks.blocks.val = SeqToSet(items)
               /\ SeqToSet(ObjectKeys(preparedBlocks.blocks)) = SeqToSet(items)
               /\ \A k \in 1..N :
                     MapGet(preparedBlocks.blocks, items[k])
                       = processBlock(specs[k].type, specs[k].data).value
               /\ SeqToSet(items) \cap IdsInFlight = {}

\* the slot holds the two blocks of one stage call while another stage call,
\* which has built one block of its own, still waits for an image check
C33_Witness ==
    /\ preparedBlocks # Null
    /\ Len(preparedBlocks.blocks_layout.items) = 2
    /\ \E s \in Stagers : Len(s.blockIds) = 1 /\ Len(s.blocks) = 1
    /\ Get(MapGet(preparedBlocks.blocks, preparedBlocks.blocks_layout.items[1]), "@type") = Str("image")

-----------------------------------------------------------------------------
(* The rich-text record *)

\* processBlock has run on a slate or text block whose text is a string or
\* is missing
RichTextNormalized ==
    /\ Normalized(RichTextTypes)
    /\ Has(last.args.blockData, "text") => last.args.blockData["text"].t = "string"

\* the text the record is made from: the raw text, "" when there is none
TextOf(raw) == IF Has(raw, "text") THEN raw["text"] ELSE Str("")

\* the record but for its theme: four fields, the slate discriminator, the
\* raw text as plaintext and its parse as value
RichTextFields ==
    /\ last.ok
    /\ DOMAIN last.blockData = {"@type", "plaintext", "value", "theme"}
    /\ last.blockData["@type"] = Str("slate")
    /\ last.blockData["plaintext"] = TextOf(last.args.blockData)
    /\ last.blockData["value"] = Arr(markdownParse(TextOf(last.args.blockData)).value)
    /\ TextOf(last.args.blockData) = Str("") => last.blockData["value"] = Arr(<<>>)
    /\ TextOf(last.args.blockData) = Str("# Hi") =>
         last.blockData["value"] = Arr(<<[type |-> "h1", children |-> <<[text |-> "Hi"]>>]>>)
    /\ TextOf(last.args.blockData) = Str("Hello World") =>
         last.blockData["value"] = Arr(<<[type |-> "p", children |-> <<[text |-> "Hello World"]>>]>>)

\* C34 as stated: the record has these four fields and its theme is the one
\* supplied, 'default' when none is supplied
C34_SuppliedTheme ==
    RichTextNormalized =>
        /\ RichTextFields
        /\ last.blockData["theme"] = IF Has(last.args.blockData, "theme")
                                     THEN last.args.blockData["theme"] ELSE Str("default")

\* C34, amended: the record has these four fields and its theme is the one
\* supplied when JavaScript reads it as true, 'default' when none is supplied
\* or the one supplied is the empty string, 0, false or null
C34_TruthyThemeOrDefault ==
    RichTextNormalized =>
        /\ RichTextFields
        /\ last.blockData["theme"] = IF Truthy(Get(last.args.blockData, "theme"))
                                     THEN last.args.blockData["theme"] ELSE Str("default")

\* a text block with a heading as text, a theme and a field of its own has
\* been normalized
C34_Witness ==
    /\ RichTextNormalized /\ last.ok
    /\ last.args.blockType = "text"
    /\ Get(last.args.blockData, "text") = Str("# Hi")
    /\ Get(last.args.blockData, "theme") = Str("grey")
    /\ Has(last.args.blockData, "align")
    /\ last.blockData["theme"] = Str("grey")

-----------------------------------------------------------------------------
(* What the title step leaves alone *)

\* the id the title step put first: that of the enforced title block
EnforcedId == last.blockData.blocks_layout.items[1]

\* C35: the title step changes the title block only: but for the enforced
\* title block the output has the blocks of the input, under the same keys in
\* the same key order and with the same data, and the other ids of the
\* layout are those of the input layout, as often and in the same order
C35_OnlyTitleChanges ==
    Enforced =>
        LET inBlocks == last.args.blocks
            outBlocks == last.blockData.blocks
        IN /\ last.blockData.blocks_layout.items # <<>>
           /\ DOMAIN outBlocks.val \ {EnforcedId} = DOMAIN inBlocks.val \ {EnforcedId}
           /\ \A id \in DOMAIN inBlocks.val \ {EnforcedId} : outBlocks.val[id] = inBlocks.val[id]
           /\ Others(ObjectKeys(outBlocks), EnforcedId) = Others(ObjectKeys(inBlocks), EnforcedId)
           /\ Others(last.blockData.blocks_layout.items, EnforcedId)
                = Others(last.args.layout, EnforcedId)

\* a title block listed last of three was moved to the front, past two
\* blocks that kept their data
C35_Witness ==
    /\ last.op = "enforceTitle"
    /\ Len(last.args.layout) = 3
    /\ last.args.layout[3] = EnforcedId
    /\ last.args.layout[1] # EnforcedId /\ last.args.layout[2] # EnforcedId
    /\ MapGet(last.args.blocks, EnforcedId) # TitleBlock
    /\ MapGet(last.blockData.blocks, EnforcedId) = TitleBlock
    /\ last.blockData.blocks_layout.items = <<EnforcedId, last.args.layout[1], last.args.layout[2]>>

-----------------------------------------------------------------------------
(* A staged layout of no blocks *)

\* an update with no blocks of its own is answered while the slot holds the
\* layout of a stage call of no specifications, at most 60 seconds old
UpdateOverEmptyLayout ==
    /\ last.op = "update" /\ Resolves(last) /\ NothingSupplied(last)
    /\ Within60s(last.pre, now)
    /\ last.pre.items = <<>>

\* C36: a stage call of no specifications succeeds and fills the slot, and
\* an update with no blocks of its own answered at most 60 seconds later
\* does not resolve to absent: it resolves to one canonical title block under
\* a new identifier, empties the slot, and sends a PATCH whose blocks and
\* blocks_layout fields hold that block alone
C36_EmptyStageIsStaged ==
    /\ (last.op = "stage" /\ last.args.valid /\ last.args.blocks = <<>>) =>
          /\ last.ok
          /\ preparedBlocks # Null
          /\ preparedBlocks.blocks_layout.items = <<>>
          /\ preparedBlocks.blocks = EmptyMap
          /\ preparedBlocks.timestamp = now
    /\ UpdateOverEmptyLayout =>
          /\ last.blockData \notin {Null, Undefined}
          /\ OnlyTitle(last.blockData)
          /\ last.blockData.blocks_layout.items[1] \notin CallerIds
          /\ preparedBlocks = Null
          /\ last.request # Null /\ last.request.method = "PATCH"
          /\ NoOverride(last.args) =>
                /\ SendsResolved(last)
                /\ Len(last.request.data["blocks_layout"].items) = 1
                /\ DOMAIN last.request.data["blocks"].val
                     = SeqToSet(last.request.data["blocks_layout"].items)

\* an update that names a path and nothing else is sent right after a stage
\* call of no specifications, and carries the two block fields only
C36_Witness ==
    /\ UpdateOverEmptyLayout /\ last.ok
    /\ now = last.pre.timestamp
    /\ last.args.additionalFields = Undefined
    /\ DOMAIN last.request.data = {"blocks", "blocks_layout"}

-----------------------------------------------------------------------------
(* A plone_configure call that fails *)

\* a plone_configure call is answered in this step, and fails
ConfigureFails == last = NoCall /\ last'.op = "configure" /\ ~last'.ok

\* C37: a plone_configure call that fails leaves the client as it was: none
\* when there was none, the one there was otherwise
C37_FailedConfigureKeepsClient ==
    [][ConfigureFails => client' = client]_vars

\* the same, for the calls that fail before the connection is tested: on
\* their arguments, or for want of a base URL
C37_RejectedKeepsClient ==
    [][(ConfigureFails /\ last'.request = Null) => client' = client]_vars

-----------------------------------------------------------------------------
(* Overlapping plone_add_single_block calls *)

\* the calls answered with success
Added == {task \in BagToSet(inflight) : task.pc = "done" /\ task.ok}

\* every call made has been answered
AllAnswered == \A task \in BagToSet(inflight) : task.pc = "done"

\* the document has the block of each successful call, in its blocks and in
\* its layout
HoldsAllAdded ==
    \A task \in Added :
        /\ MapHas(document.blocks, task.blockId)
        /\ task.blockId \in SeqToSet(document.blocks_layout.items)

\* C38: when all plone_add_single_block calls on the document have been
\* answered, however their GET and PATCH requests interleaved, the document
\* holds the block of every call that succeeded, in its blocks and in its
\* layout
C38_NoLostUpdate == AllAnswered => HoldsAllAdded

\* the same, for calls of which none had its PATCH applied to a document
\* changed since its GET
C38_OneAfterTheOther ==
    (AllAnswered /\ \A task \in Added : task.patched = task.fetched) => HoldsAllAdded

\* two calls have succeeded, the second fetched the document after the
\* first had changed it, and both blocks are there
C38_Witness ==
    /\ AllAnswered /\ HoldsAllAdded
    /\ Cardinality(Added) = 2
    /\ \E task \in Added : task.fetched = 1 /\ task.patched = 1

-----------------------------------------------------------------------------
(* Paths *)

\* normalizePath has run, once or twice, and last.blockData is what it returned
PathNormalized == last.op \in {"normalizePath", "normalizePathAgain"}

\* the path starts with a slash and, unless it is "/", does not end with one
WellFormedPath(path) ==
    /\ path # <<>>
    /\ path[1] = "/"
    /\ path # <<"/">> => path[Len(path)] # "/"

\* the path ends in two slashes
EndsInTwoSlashes(path) ==
    Len(path) >= 2 /\ path[Len(path)] = "/" /\ path[Len(path) - 1] = "/"

\* C39: for every path normalizePath returns a path that starts with a
\* slash and has no trailing slash unless it is "/"; "/" and the empty path
\* give "/"; and normalizing what it returned returns the same
C39_NormalizePath ==
    /\ PathNormalized => WellFormedPath(last.blockData)
    /\ (last.op = "normalizePath" /\ last.args.path \in {<<>>, <<"/">>}) =>
          last.blockData = <<"/">>
    /\ last.op = "normalizePathAgain" => last.blockData = last.args.path

\* what holds: the empty path gives "/", and a path that is neither empty
\* nor "/" and does not end in two slashes gives a well-formed path that
\* normalizePath returns unchanged
C39_OtherPaths ==
    /\ (last.op = "normalizePath" /\ last.args.path \notin {<<>>, <<"/">>}
          /\ ~EndsInTwoSlashes(last.args.path)) =>
          /\ WellFormedPath(last.blockData)
          /\ normalizePath(last.blockData) = last.blockData
    /\ (last.op = "normalizePath" /\ last.args.path = <<>>) => last.blockData = <<"/">>

\* the path "a/" became "/a", and normalizing "/a" gave "/a" again
C39_Witness ==
    /\ last.op = "normalizePathAgain"
    /\ last.args.path = <<"/", "a">>
    /\ last.blockData = <<"/", "a">>

====
